---------------------------- MODULE Spec2Model ----------------------------
(***************************************************************************)
(* A model of l00pss/treego: the B-tree (package btree), the B+ tree       *)
(* (package bplustree) and the R-tree (package rtree).  Each public        *)
(* mutating operation is one action.                                       *)
(* Go slices are sequences; Go's 0-based indexes are kept and translated   *)
(* by At and Slice.                                                        *)
(***************************************************************************)
EXTENDS Integers, Sequences, FiniteSets, TLC

\* ------------------------------------------------------------------ bounds
\* Keys are 1..MaxKey and values 1..MaxVal; 0 is the zero value of V.
MaxKey == 4
MaxVal == 2
\* The largest degree argument handed to NewBTree / New.
MaxDegree == 3
\* Insert is not called on a B-tree that already holds MaxSize entries.
MaxSize == 5

\* The deep B-tree runs: keys 1..MaxKeyDeep, at most MaxSizeDeep entries.
MaxKeyDeep == 3
MaxSizeDeep == 8
\* The runs with distinct keys only: keys 1..MaxKeyFresh.
MaxKeyFresh == 9
MaxKeyDescent == 10
MaxReadSize == 5
MaxReadKey == 2

Keys == 1..MaxKey
Vals == 1..MaxVal
DeepKeys == 1..MaxKeyDeep
FreshKeys == 1..MaxKeyFresh
Max3(a, b, c) == IF a >= b /\ a >= c THEN a ELSE IF b >= c THEN b ELSE c
AllKeys == 1..Max3(MaxKey, MaxKeyDeep, Max3(MaxKeyFresh, MaxKeyDescent, 0))
DescentKeys == 1..MaxKeyDescent
\* The value the deep runs insert with key k.
ValOf(k) == ((k - 1) % MaxVal) + 1
DegreeArgs == 0..MaxDegree
\* The B+ tree runs: keys 1..MaxKeyBP; the first key is inserted with its own
\* value or the next key's, every other key with the value ValOf fixes for it.
MaxKeyBP == 7
BPKeys == 1..MaxKeyBP
BPValsOf(k) == IF k = 1 THEN {ValOf(k), ValOf(k + 1)} ELSE {ValOf(k)}
ZeroV == 0

\* The runs on R-trees built with any arguments: minEntries and maxEntries
\* are -MaxLowEntries..MaxEntriesArg, and Insert is not called on a tree that
\* already holds MaxArgItems items.
MaxLowEntries == 2
MaxEntriesArg == 4
MaxArgItems == 3
RTAnyArgs ==
  ((0 - MaxLowEntries)..MaxEntriesArg) \X ((0 - MaxLowEntries)..MaxEntriesArg)

\* The runs on trees built with a degree below 2: the degree arguments are
\* -MaxLowDegree..1 and the keys 1..MaxKeyClamp.
MaxLowDegree == 2
MaxKeyClamp == 4
LowDegreeArgs == (0 - MaxLowDegree)..1
ClampKeys == 1..MaxKeyClamp

\* The R-tree runs: query coordinates are 0..MaxCoord, Insert is not called
\* on an R-tree that already holds MaxItems items.  The nearest-neighbour
\* runs stop at MaxNearItems items and ask for -1..MaxNearItems + 1
\* neighbours.
MaxCoord == 3
MaxItems == 5
MaxNearItems == 4
MaxSplitItems == 4
\* math.MaxFloat64, as the largest integer the checker represents; every
\* area, enlargement and overlap of the runs is far below it.
MaxFloat64 == 2147483647

\* ------------------------------------------------------------- Go slices
\* s[i] for a 0-based index i.
At(s, i) == s[i + 1]
\* s[lo:hi]
Slice(s, lo, hi) == SubSeq(s, lo + 1, hi)
\* s with x inserted so that it becomes s[i].
InsertAt(s, i, x) == Slice(s, 0, i) \o <<x>> \o Slice(s, i, Len(s))
\* s without s[i].
RemoveAt(s, i) == Slice(s, 0, i) \o Slice(s, i + 1, Len(s))
\* s with s[i] replaced by x.
SetAt(s, i, x) == [s EXCEPT ![i + 1] = x]

\* The B-tree and its bookkeeping; the B+ tree and its bookkeeping.
VARIABLES bt, btRef, btFresh, btLast, btRound, bp, bpRef, bpLast, rt, rtItems,
          rtPanic, rd

btVars == <<bt, btRef, btFresh, btLast, btRound>>
bpVars == <<bp, bpRef, bpLast>>
rtVars == <<rt, rtItems, rtPanic>>
vars == <<bt, btRef, btFresh, btLast, btRound, bp, bpRef, bpLast, rt, rtItems,
         rtPanic, rd>>

\* ================================================================= BTree

\* newNode(isLeaf)
newNode(isLeaf) ==
  [keys |-> <<>>, values |-> <<>>, children |-> <<>>, isLeaf |-> isLeaf]

\* NewBTree that takes the degree as it is given.
NewBTree_NoClamp(degree) == [root |-> newNode(TRUE), degree |-> degree]

\* NewBTree(degree): degrees below 2 are clamped to 2.
NewBTree(degree) ==
  [root |-> newNode(TRUE), degree |-> IF degree < 2 THEN 2 ELSE degree]

isFull(t, node) == Len(node.keys) = 2 * t - 1

\* The backward scan of insertNonFull: for i >= 0 && keys[i] > key { i-- }
RECURSIVE ScanDown(_, _, _)
ScanDown(keys, i, key) ==
  IF i >= 0 /\ At(keys, i) > key THEN ScanDown(keys, i - 1, key) ELSE i

\* The forward scan of searchNode and deleteFromNode:
\* for i < len(keys) && key > keys[i] { i++ }
RECURSIVE ScanUp(_, _, _)
ScanUp(keys, i, key) ==
  IF i < Len(keys) /\ key > At(keys, i) THEN ScanUp(keys, i + 1, key) ELSE i

\* splitChild with the new sibling always made a leaf.
splitChild_LeafSibling(t, parent, index) ==
  LET fullChild == At(parent.children, index)
      mid == t - 1
      n == Len(fullChild.keys)
      newChild ==
        [keys |-> Slice(fullChild.keys, t, n),
         values |-> Slice(fullChild.values, t, n),
         children |-> IF fullChild.isLeaf THEN <<>>
                      ELSE Slice(fullChild.children, t, Len(fullChild.children)),
         isLeaf |-> TRUE]
      oldChild ==
        [keys |-> Slice(fullChild.keys, 0, mid),
         values |-> Slice(fullChild.values, 0, mid),
         children |-> IF fullChild.isLeaf THEN fullChild.children
                      ELSE Slice(fullChild.children, 0, t),
         isLeaf |-> fullChild.isLeaf]
  IN [keys |-> InsertAt(parent.keys, index, At(fullChild.keys, mid)),
      values |-> InsertAt(parent.values, index, At(fullChild.values, mid)),
      children |-> InsertAt(SetAt(parent.children, index, oldChild),
                            index + 1, newChild),
      isLeaf |-> parent.isLeaf]

\* splitChild(parent, index): the parent after the split of its full child.
splitChild(t, parent, index) ==
  LET fullChild == At(parent.children, index)
      mid == t - 1
      midKey == At(fullChild.keys, mid)
      midValue == At(fullChild.values, mid)
      n == Len(fullChild.keys)
      newChild ==
        [newNode(fullChild.isLeaf) EXCEPT
           !.keys = Slice(fullChild.keys, t, n),
           !.values = Slice(fullChild.values, t, n),
           !.children = IF fullChild.isLeaf THEN <<>>
                        ELSE Slice(fullChild.children, t, Len(fullChild.children))]
      oldChild ==
        [keys |-> Slice(fullChild.keys, 0, mid),
         values |-> Slice(fullChild.values, 0, mid),
         children |-> IF fullChild.isLeaf THEN fullChild.children
                      ELSE Slice(fullChild.children, 0, t),
         isLeaf |-> fullChild.isLeaf]
  IN [keys |-> InsertAt(parent.keys, index, midKey),
      values |-> InsertAt(parent.values, index, midValue),
      children |-> InsertAt(SetAt(parent.children, index, oldChild),
                            index + 1, newChild),
      isLeaf |-> parent.isLeaf]

\* insertNonFull(node, key, value): the node after the insertion.
RECURSIVE insertNonFull(_, _, _, _)
insertNonFull(t, node, key, value) ==
  LET i == ScanDown(node.keys, Len(node.keys) - 1, key)
  IN IF node.isLeaf
     THEN [node EXCEPT !.keys = InsertAt(node.keys, i + 1, key),
                       !.values = InsertAt(node.values, i + 1, value)]
     ELSE LET j == i + 1
              split == isFull(t, At(node.children, j))
              node2 == IF split THEN splitChild(t, node, j) ELSE node
              c == IF split /\ At(node2.keys, j) < key THEN j + 1 ELSE j
          IN [node2 EXCEPT !.children =
                SetAt(node2.children, c,
                      insertNonFull(t, At(node2.children, c), key, value))]

\* Insert(key, value): the tree after the call.
Insert(tree, key, value) ==
  LET t == tree.degree
      root2 == IF isFull(t, tree.root)
               THEN splitChild(t, [newNode(FALSE) EXCEPT !.children = <<tree.root>>], 0)
               ELSE tree.root
  IN [tree EXCEPT !.root = insertNonFull(t, root2, key, value)]

\* searchNode(node, key): [val, found]
RECURSIVE searchNode(_, _)
searchNode(node, key) ==
  LET i == ScanUp(node.keys, 0, key)
  IN IF i < Len(node.keys) /\ key = At(node.keys, i)
     THEN [val |-> At(node.values, i), found |-> TRUE]
     ELSE IF node.isLeaf
          THEN [val |-> ZeroV, found |-> FALSE]
          ELSE searchNode(At(node.children, i), key)

Search(tree, key) == searchNode(tree.root, key)

\* getPredecessor(node, index): the last entry of the subtree children[index].
RECURSIVE rightmost(_)
rightmost(curr) ==
  IF curr.isLeaf
  THEN [Key |-> At(curr.keys, Len(curr.keys) - 1),
        Value |-> At(curr.values, Len(curr.keys) - 1)]
  ELSE rightmost(At(curr.children, Len(curr.children) - 1))

\* getSuccessor(node, index): the first entry of the subtree children[index+1].
RECURSIVE leftmost(_)
leftmost(curr) ==
  IF curr.isLeaf
  THEN [Key |-> At(curr.keys, 0), Value |-> At(curr.values, 0)]
  ELSE leftmost(At(curr.children, 0))

\* getPredecessor taking the first entry of the left subtree, not the last.
getPredecessor_First(node, index) == leftmost(At(node.children, index))

getPredecessor(node, index) == rightmost(At(node.children, index))

getSuccessor(node, index) == leftmost(At(node.children, index + 1))

\* borrowFromLeftSibling that takes the key out of the sibling but does not
\* give the child the key of the parent.
borrowFromLeftSibling_NoGain(parent, index) ==
  LET sibling == At(parent.children, index - 1)
      lastIndex == Len(sibling.keys) - 1
      sibling2 ==
        [sibling EXCEPT
           !.keys = Slice(sibling.keys, 0, lastIndex),
           !.values = Slice(sibling.values, 0, lastIndex),
           !.children = IF sibling.isLeaf THEN sibling.children
                        ELSE Slice(sibling.children, 0, Len(sibling.children) - 1)]
  IN [parent EXCEPT
        !.keys = SetAt(parent.keys, index - 1, At(sibling.keys, lastIndex)),
        !.values = SetAt(parent.values, index - 1, At(sibling.values, lastIndex)),
        !.children = SetAt(parent.children, index - 1, sibling2)]

\* borrowFromLeftSibling(parent, index): the parent after the rotation.
borrowFromLeftSibling(parent, index) ==
  LET child == At(parent.children, index)
      sibling == At(parent.children, index - 1)
      lastIndex == Len(sibling.keys) - 1
      child2 ==
        [child EXCEPT
           !.keys = <<At(parent.keys, index - 1)>> \o child.keys,
           !.values = <<At(parent.values, index - 1)>> \o child.values,
           !.children = IF child.isLeaf THEN child.children
                        ELSE <<At(sibling.children, Len(sibling.children) - 1)>>
                             \o child.children]
      sibling2 ==
        [sibling EXCEPT
           !.keys = Slice(sibling.keys, 0, lastIndex),
           !.values = Slice(sibling.values, 0, lastIndex),
           !.children = IF child.isLeaf THEN sibling.children
                        ELSE Slice(sibling.children, 0, Len(sibling.children) - 1)]
  IN [parent EXCEPT
        !.keys = SetAt(parent.keys, index - 1, At(sibling.keys, lastIndex)),
        !.values = SetAt(parent.values, index - 1, At(sibling.values, lastIndex)),
        !.children = SetAt(SetAt(parent.children, index, child2),
                           index - 1, sibling2)]

\* borrowFromRightSibling(parent, index): the parent after the rotation.
borrowFromRightSibling(parent, index) ==
  LET child == At(parent.children, index)
      sibling == At(parent.children, index + 1)
      child2 ==
        [child EXCEPT
           !.keys = Append(child.keys, At(parent.keys, index)),
           !.values = Append(child.values, At(parent.values, index)),
           !.children = IF child.isLeaf THEN child.children
                        ELSE Append(child.children, At(sibling.children, 0))]
      sibling2 ==
        [sibling EXCEPT
           !.keys = Slice(sibling.keys, 1, Len(sibling.keys)),
           !.values = Slice(sibling.values, 1, Len(sibling.values)),
           !.children = IF child.isLeaf THEN sibling.children
                        ELSE Slice(sibling.children, 1, Len(sibling.children))]
  IN [parent EXCEPT
        !.keys = SetAt(parent.keys, index, At(sibling.keys, 0)),
        !.values = SetAt(parent.values, index, At(sibling.values, 0)),
        !.children = SetAt(SetAt(parent.children, index, child2),
                           index + 1, sibling2)]

\* mergeChildren that does not move the key between the two children down
\* into the merged child.
mergeChildren_DropKey(parent, index) ==
  LET child == At(parent.children, index)
      sibling == At(parent.children, index + 1)
      child2 ==
        [child EXCEPT
           !.keys = child.keys \o sibling.keys,
           !.values = child.values \o sibling.values,
           !.children = IF child.isLeaf THEN child.children
                        ELSE child.children \o sibling.children]
  IN [parent EXCEPT
        !.keys = RemoveAt(parent.keys, index),
        !.values = RemoveAt(parent.values, index),
        !.children = RemoveAt(SetAt(parent.children, index, child2), index + 1)]

\* mergeChildren(parent, index): children[index], the key between and
\* children[index+1] become one child.
mergeChildren(parent, index) ==
  LET child == At(parent.children, index)
      sibling == At(parent.children, index + 1)
      child2 ==
        [child EXCEPT
           !.keys = Append(child.keys, At(parent.keys, index)) \o sibling.keys,
           !.values = Append(child.values, At(parent.values, index)) \o sibling.values,
           !.children = IF child.isLeaf THEN child.children
                        ELSE child.children \o sibling.children]
  IN [parent EXCEPT
        !.keys = RemoveAt(parent.keys, index),
        !.values = RemoveAt(parent.values, index),
        !.children = RemoveAt(SetAt(parent.children, index, child2), index + 1)]

\* handleChildUnderflow that never borrows.
handleChildUnderflow_MergeOnly(t, node, index) ==
  IF index > 0 THEN mergeChildren(node, index - 1) ELSE mergeChildren(node, index)

\* handleChildUnderflow(node, index)
handleChildUnderflow(t, node, index) ==
  IF index > 0 /\ Len(At(node.children, index - 1).keys) >= t
  THEN borrowFromLeftSibling(node, index)
  ELSE IF index < Len(node.children) - 1
          /\ Len(At(node.children, index + 1).keys) >= t
       THEN borrowFromRightSibling(node, index)
       ELSE IF index > 0
            THEN mergeChildren(node, index - 1)
            ELSE mergeChildren(node, index)

\* deleteFromNode(node, key) and deleteFromInternalNode(node, index):
\* [node, ok], the node after the call and the returned flag.
RECURSIVE deleteFromNode(_, _, _)
RECURSIVE deleteFromInternalNode(_, _, _)

\* node with children[i] replaced by the result r of a recursive delete.
WithChild(node, i, r) ==
  [node |-> [node EXCEPT !.children = SetAt(node.children, i, r.node)],
   ok |-> r.ok]

deleteFromNode(t, node, key) ==
  LET i == ScanUp(node.keys, 0, key)
  IN IF i < Len(node.keys) /\ key = At(node.keys, i)
     THEN IF node.isLeaf
          THEN [node |-> [node EXCEPT !.keys = RemoveAt(node.keys, i),
                                      !.values = RemoveAt(node.values, i)],
                ok |-> TRUE]
          ELSE deleteFromInternalNode(t, node, i)
     ELSE IF ~node.isLeaf
          THEN IF Len(At(node.children, i).keys) >= t
               THEN WithChild(node, i, deleteFromNode(t, At(node.children, i), key))
               ELSE deleteFromNode(t, handleChildUnderflow(t, node, i), key)
          ELSE [node |-> node, ok |-> FALSE]

deleteFromInternalNode(t, node, index) ==
  LET key == At(node.keys, index)
  IN IF Len(At(node.children, index).keys) >= t
     THEN LET pred == getPredecessor(node, index)
              node2 == [node EXCEPT !.keys = SetAt(node.keys, index, pred.Key),
                                    !.values = SetAt(node.values, index, pred.Value)]
          IN WithChild(node2, index,
                       deleteFromNode(t, At(node2.children, index), pred.Key))
     ELSE IF Len(At(node.children, index + 1).keys) >= t
          THEN LET succ == getSuccessor(node, index)
                   node2 == [node EXCEPT !.keys = SetAt(node.keys, index, succ.Key),
                                         !.values = SetAt(node.values, index, succ.Value)]
               IN WithChild(node2, index + 1,
                            deleteFromNode(t, At(node2.children, index + 1), succ.Key))
          ELSE LET node2 == mergeChildren(node, index)
               IN WithChild(node2, index,
                            deleteFromNode(t, At(node2.children, index), key))

\* Delete without the replacement of an emptied root by its only child.
Delete_KeepRoot(tree, key) ==
  LET r == deleteFromNode(tree.degree, tree.root, key)
  IN [tree |-> [tree EXCEPT !.root = r.node], ok |-> r.ok]

\* Delete(key): [tree, ok]
Delete(tree, key) ==
  LET r == deleteFromNode(tree.degree, tree.root, key)
      root2 == IF Len(r.node.keys) = 0 /\ ~r.node.isLeaf
               THEN At(r.node.children, 0)
               ELSE r.node
  IN [tree |-> [tree EXCEPT !.root = root2], ok |-> r.ok]

\* The recursive calls of deleteFromNode that deleteFromNode(node, key) and
\* deleteFromInternalNode(node, index) make, in the order they are made:
\* of each call, whether its node is the node Delete started from (the
\* root), whether it is made again on the caller's own node (after
\* handleChildUnderflow) and how many keys the node holds at the moment of
\* the call.
RECURSIVE deleteFromNodeCalls(_, _, _, _)
RECURSIVE deleteFromInternalNodeCalls(_, _, _)

CallOn(node, root, again) ==
  [root |-> root, again |-> again, keys |-> Len(node.keys)]

deleteFromNodeCalls(t, node, key, root) ==
  LET i == ScanUp(node.keys, 0, key)
  IN IF i < Len(node.keys) /\ key = At(node.keys, i)
     THEN IF node.isLeaf
          THEN <<>>
          ELSE deleteFromInternalNodeCalls(t, node, i)
     ELSE IF ~node.isLeaf
          THEN IF Len(At(node.children, i).keys) >= t
               THEN <<CallOn(At(node.children, i), FALSE, FALSE)>>
                    \o deleteFromNodeCalls(t, At(node.children, i), key, FALSE)
               ELSE <<CallOn(handleChildUnderflow(t, node, i), root, TRUE)>>
                    \o deleteFromNodeCalls(t, handleChildUnderflow(t, node, i),
                                           key, root)
          ELSE <<>>

deleteFromInternalNodeCalls(t, node, index) ==
  LET key == At(node.keys, index)
  IN IF Len(At(node.children, index).keys) >= t
     THEN <<CallOn(At(node.children, index), FALSE, FALSE)>>
          \o deleteFromNodeCalls(t, At(node.children, index),
                                 getPredecessor(node, index).Key, FALSE)
     ELSE IF Len(At(node.children, index + 1).keys) >= t
          THEN <<CallOn(At(node.children, index + 1), FALSE, FALSE)>>
               \o deleteFromNodeCalls(t, At(node.children, index + 1),
                                      getSuccessor(node, index).Key, FALSE)
          ELSE <<CallOn(At(mergeChildren(node, index).children, index), FALSE, FALSE)>>
               \o deleteFromNodeCalls(t,
                                      At(mergeChildren(node, index).children, index),
                                      key, FALSE)

\* inOrderTraverseNode(node, result): the entries appended to result.
RECURSIVE inOrderFrom(_, _)
inOrderFrom(node, i) ==
  IF i < Len(node.keys)
  THEN (IF node.isLeaf THEN <<>> ELSE inOrderFrom(At(node.children, i), 0))
       \o <<[Key |-> At(node.keys, i), Value |-> At(node.values, i)]>>
       \o inOrderFrom(node, i + 1)
  ELSE IF node.isLeaf THEN <<>> ELSE inOrderFrom(At(node.children, i), 0)

inOrderTraverseNode(node) == inOrderFrom(node, 0)

InOrderTraversal(tree) == inOrderTraverseNode(tree.root)

\* getHeight(node)
RECURSIVE getHeight(_)
getHeight(node) ==
  IF node.isLeaf THEN 0 ELSE 1 + getHeight(At(node.children, 0))

Height(tree) == getHeight(tree.root)

\* getSize(node)
RECURSIVE getSize(_)
RECURSIVE SumSizes(_, _)
SumSizes(children, i) ==
  IF i < Len(children)
  THEN getSize(At(children, i)) + SumSizes(children, i + 1)
  ELSE 0
getSize(node) ==
  Len(node.keys) + (IF node.isLeaf THEN 0 ELSE SumSizes(node.children, 0))

Size(tree) == getSize(tree.root)

IsEmpty(tree) == Len(tree.root.keys) = 0

\* ============================================================= BPlusTree
\* The tree is [root, degree, heap]: heap is the sequence of the nodes
\* allocated so far, a node reference is its index and Nil is the nil
\* pointer.

Nil == 0

\* New(degree): degrees below 2 are clamped to 2; the root is nil.
New(degree) ==
  [root |-> Nil, degree |-> IF degree < 2 THEN 2 ELSE degree, heap |-> <<>>]

\* &node{isLeaf: true, entries, next, parent}
LeafNode(entries, next, parent) ==
  [isLeaf |-> TRUE, keys |-> <<>>, children |-> <<>>, entries |-> entries,
   next |-> next, parent |-> parent]

\* An internal node created with isLeaf set.
InternalNode_AsLeaf(keys, children, parent) ==
  [isLeaf |-> TRUE, keys |-> keys, children |-> children, entries |-> <<>>,
   next |-> Nil, parent |-> parent]

\* &node{isLeaf: false, keys, children, parent}
InternalNode(keys, children, parent) ==
  [isLeaf |-> FALSE, keys |-> keys, children |-> children, entries |-> <<>>,
   next |-> Nil, parent |-> parent]

maxLeafEntries(T) == T.degree * 2 - 1
minLeafEntries(T) == T.degree - 1
maxInternalKeys(T) == T.degree * 2 - 1
minInternalKeys(T) == T.degree - 1

\* The reference the next allocation returns.
NewRef(T) == Len(T.heap) + 1
Alloc(T, node) == [T EXCEPT !.heap = Append(T.heap, node)]

\* The scan of findLeaf with key > keys[i] in place of key >= keys[i].
RECURSIVE ScanGE_Strict(_, _, _)
ScanGE_Strict(keys, i, key) ==
  IF i < Len(keys) /\ key > At(keys, i) THEN ScanGE_Strict(keys, i + 1, key) ELSE i

\* for i < len(keys) && key >= keys[i] { i++ }
RECURSIVE ScanGE(_, _, _)
ScanGE(keys, i, key) ==
  IF i < Len(keys) /\ key >= At(keys, i) THEN ScanGE(keys, i + 1, key) ELSE i

\* findLeaf(key), from node n.
RECURSIVE findLeafFrom(_, _, _)
findLeafFrom(T, n, key) ==
  IF T.heap[n].isLeaf THEN n
  ELSE findLeafFrom(T, At(T.heap[n].children, ScanGE(T.heap[n].keys, 0, key)), key)

findLeaf(T, key) == findLeafFrom(T, T.root, key)

\* firstLeaf()
RECURSIVE firstLeafFrom(_, _)
firstLeafFrom(T, n) ==
  IF T.heap[n].isLeaf THEN n ELSE firstLeafFrom(T, At(T.heap[n].children, 0))

firstLeaf(T) == IF T.root = Nil THEN Nil ELSE firstLeafFrom(T, T.root)

\* The same loop passing over the first entry.
RECURSIVE EntryIndex_SkipFirst(_, _, _)
EntryIndex_SkipFirst(entries, i, key) ==
  IF i >= Len(entries) THEN -1
  ELSE IF i > 0 /\ At(entries, i).Key = key THEN i
  ELSE EntryIndex_SkipFirst(entries, i + 1, key)

\* The index of the first entry with the key, -1 if there is none:
\* for i, e := range entries { if e.Key == key { ... } }
RECURSIVE EntryIndex(_, _, _)
EntryIndex(entries, i, key) ==
  IF i >= Len(entries) THEN -1
  ELSE IF At(entries, i).Key = key THEN i
  ELSE EntryIndex(entries, i + 1, key)

\* for i < len(children) && children[i] != n { i++ }
RECURSIVE ChildIndex(_, _, _)
ChildIndex(children, i, n) ==
  IF i < Len(children) /\ At(children, i) # n
  THEN ChildIndex(children, i + 1, n)
  ELSE i

\* for i < len(entries) && entries[i].Key < key { i++ }
RECURSIVE ScanLT(_, _, _)
ScanLT(entries, i, key) ==
  IF i < Len(entries) /\ At(entries, i).Key < key
  THEN ScanLT(entries, i + 1, key)
  ELSE i

\* Search(key): [val, found]
BPSearch(T, key) ==
  IF T.root = Nil THEN [val |-> ZeroV, found |-> FALSE]
  ELSE LET leaf == findLeaf(T, key)
           i == EntryIndex(T.heap[leaf].entries, 0, key)
       IN IF i >= 0
          THEN [val |-> At(T.heap[leaf].entries, i).Value, found |-> TRUE]
          ELSE [val |-> ZeroV, found |-> FALSE]

\* insertIntoLeaf(leaf, key, value)
insertIntoLeaf(T, leaf, key, value) ==
  LET entries == T.heap[leaf].entries
      i == ScanLT(entries, 0, key)
  IN [T EXCEPT !.heap[leaf].entries =
        InsertAt(entries, i, [Key |-> key, Value |-> value])]

\* The loop left out: the moved children keep their parent links.
Reparent_Skip(T, children, i, p) == T

\* for _, child := range children { child.parent = p }
RECURSIVE Reparent(_, _, _, _)
Reparent(T, children, i, p) ==
  IF i >= Len(children) THEN T
  ELSE Reparent([T EXCEPT !.heap[At(children, i)].parent = p], children, i + 1, p)

RECURSIVE insertIntoParent(_, _, _, _)
RECURSIVE splitInternal(_, _)

\* insertIntoParent(left, key, right)
insertIntoParent(T, left, key, right) ==
  IF T.heap[left].parent = Nil
  THEN LET newRoot == NewRef(T)
           T1 == Alloc(T, InternalNode(<<key>>, <<left, right>>, Nil))
       IN [T1 EXCEPT !.root = newRoot,
                     !.heap[left].parent = newRoot,
                     !.heap[right].parent = newRoot]
  ELSE LET parent == T.heap[left].parent
           i == ChildIndex(T.heap[parent].children, 0, left)
           T1 == [T EXCEPT
                    !.heap[right].parent = parent,
                    !.heap[parent].keys = InsertAt(T.heap[parent].keys, i, key),
                    !.heap[parent].children =
                       InsertAt(T.heap[parent].children, i + 1, right)]
       IN IF Len(T1.heap[parent].keys) > maxInternalKeys(T1)
          THEN splitInternal(T1, parent)
          ELSE T1

\* splitInternal that splits as splitLeaf does: the median key goes up and
\* also stays, as the first key of the new node.
splitInternal_KeepMedian(T, n) ==
  LET keys == T.heap[n].keys
      children == T.heap[n].children
      mid == Len(keys) \div 2
      newNode2 == NewRef(T)
      moved == Slice(children, mid + 1, Len(children))
      T1 == Alloc(T, InternalNode(Slice(keys, mid, Len(keys)), moved,
                                  T.heap[n].parent))
      T2 == Reparent(T1, moved, 0, newNode2)
      T3 == [T2 EXCEPT !.heap[n].keys = Slice(keys, 0, mid),
                       !.heap[n].children = Slice(children, 0, mid + 1)]
  IN insertIntoParent(T3, n, At(keys, mid), newNode2)

\* splitInternal(n)
splitInternal(T, n) ==
  LET keys == T.heap[n].keys
      children == T.heap[n].children
      mid == Len(keys) \div 2
      promoteKey == At(keys, mid)
      newNode2 == NewRef(T)
      moved == Slice(children, mid + 1, Len(children))
      T1 == Alloc(T, InternalNode(Slice(keys, mid + 1, Len(keys)), moved,
                                  T.heap[n].parent))
      T2 == Reparent(T1, moved, 0, newNode2)
      T3 == [T2 EXCEPT !.heap[n].keys = Slice(keys, 0, mid),
                       !.heap[n].children = Slice(children, 0, mid + 1)]
  IN insertIntoParent(T3, n, promoteKey, newNode2)

\* splitLeaf with the new leaf's next left nil.
splitLeaf_NoNext(T, leaf) ==
  LET entries == T.heap[leaf].entries
      mid == Len(entries) \div 2
      newLeaf == NewRef(T)
      right == Slice(entries, mid, Len(entries))
      T1 == Alloc(T, LeafNode(right, Nil, T.heap[leaf].parent))
      T2 == [T1 EXCEPT !.heap[leaf].entries = Slice(entries, 0, mid),
                       !.heap[leaf].next = newLeaf]
  IN insertIntoParent(T2, leaf, At(right, 0).Key, newLeaf)

\* splitLeaf(leaf)
splitLeaf(T, leaf) ==
  LET entries == T.heap[leaf].entries
      mid == Len(entries) \div 2
      newLeaf == NewRef(T)
      right == Slice(entries, mid, Len(entries))
      T1 == Alloc(T, LeafNode(right, T.heap[leaf].next, T.heap[leaf].parent))
      T2 == [T1 EXCEPT !.heap[leaf].entries = Slice(entries, 0, mid),
                       !.heap[leaf].next = newLeaf]
  IN insertIntoParent(T2, leaf, At(right, 0).Key, newLeaf)

\* Insert without the replacement of the value of a key already stored.
BPInsert_NoOverwrite(T, key, value) ==
  IF T.root = Nil
  THEN [T EXCEPT !.heap = <<LeafNode(<<[Key |-> key, Value |-> value]>>, Nil, Nil)>>,
                 !.root = 1]
  ELSE LET leaf == findLeaf(T, key)
           T1 == insertIntoLeaf(T, leaf, key, value)
       IN IF Len(T1.heap[leaf].entries) > maxLeafEntries(T1)
          THEN splitLeaf(T1, leaf)
          ELSE T1

\* Insert(key, value): the tree after the call.
BPInsert(T, key, value) ==
  IF T.root = Nil
  THEN [T EXCEPT !.heap = <<LeafNode(<<[Key |-> key, Value |-> value]>>, Nil, Nil)>>,
                 !.root = 1]
  ELSE LET leaf == findLeaf(T, key)
           i == EntryIndex(T.heap[leaf].entries, 0, key)
       IN IF i >= 0
          THEN [T EXCEPT !.heap[leaf].entries[i + 1].Value = value]
          ELSE LET T1 == insertIntoLeaf(T, leaf, key, value)
               IN IF Len(T1.heap[leaf].entries) > maxLeafEntries(T1)
                  THEN splitLeaf(T1, leaf)
                  ELSE T1

RECURSIVE deleteFromParent(_, _, _, _)
RECURSIVE rebalanceInternal(_, _)

\* deleteFromParent whose collapse leaves the new root's parent link as it
\* was.
deleteFromParent_KeepLink(T, parent, keyIdx, child) ==
  LET childIdx == keyIdx + 1
      T1 == [T EXCEPT
               !.heap[parent].keys = RemoveAt(T.heap[parent].keys, keyIdx),
               !.heap[parent].children =
                  RemoveAt(T.heap[parent].children, childIdx)]
  IN IF parent = T1.root /\ Len(T1.heap[parent].keys) = 0
     THEN [T1 EXCEPT !.root = At(T1.heap[parent].children, 0)]
     ELSE IF T1.heap[parent].parent # Nil
             /\ Len(T1.heap[parent].keys) < minInternalKeys(T1)
          THEN rebalanceInternal(T1, parent)
          ELSE T1

\* deleteFromParent(parent, keyIdx, child)
deleteFromParent(T, parent, keyIdx, child) ==
  LET childIdx == keyIdx + 1
      T1 == [T EXCEPT
               !.heap[parent].keys = RemoveAt(T.heap[parent].keys, keyIdx),
               !.heap[parent].children =
                  RemoveAt(T.heap[parent].children, childIdx)]
  IN IF parent = T1.root /\ Len(T1.heap[parent].keys) = 0
     THEN LET newRoot == At(T1.heap[parent].children, 0)
          IN [T1 EXCEPT !.root = newRoot, !.heap[newRoot].parent = Nil]
     ELSE IF T1.heap[parent].parent # Nil
             /\ Len(T1.heap[parent].keys) < minInternalKeys(T1)
          THEN rebalanceInternal(T1, parent)
          ELSE T1

\* rebalanceInternal(n)
rebalanceInternal(T, n) ==
  LET parent == T.heap[n].parent
      P == T.heap[parent]
      N == T.heap[n]
      idx == ChildIndex(P.children, 0, n)
      left == At(P.children, idx - 1)
      right == At(P.children, idx + 1)
      L == T.heap[left]
      R == T.heap[right]
  IN IF parent = Nil THEN T
     ELSE IF idx > 0 /\ Len(L.keys) > minInternalKeys(T)
     THEN LET borrowedKey == At(L.keys, Len(L.keys) - 1)
              borrowedChild == At(L.children, Len(L.children) - 1)
          IN [T EXCEPT
                !.heap[left].keys = Slice(L.keys, 0, Len(L.keys) - 1),
                !.heap[left].children = Slice(L.children, 0, Len(L.children) - 1),
                !.heap[n].keys = <<At(P.keys, idx - 1)>> \o N.keys,
                !.heap[n].children = <<borrowedChild>> \o N.children,
                !.heap[borrowedChild].parent = n,
                !.heap[parent].keys = SetAt(P.keys, idx - 1, borrowedKey)]
     ELSE IF idx < Len(P.children) - 1 /\ Len(R.keys) > minInternalKeys(T)
     THEN LET borrowedKey == At(R.keys, 0)
              borrowedChild == At(R.children, 0)
          IN [T EXCEPT
                !.heap[right].keys = Slice(R.keys, 1, Len(R.keys)),
                !.heap[right].children = Slice(R.children, 1, Len(R.children)),
                !.heap[n].keys = Append(N.keys, At(P.keys, idx)),
                !.heap[n].children = Append(N.children, borrowedChild),
                !.heap[borrowedChild].parent = n,
                !.heap[parent].keys = SetAt(P.keys, idx, borrowedKey)]
     ELSE IF idx > 0
     THEN LET T1 == [T EXCEPT
                       !.heap[left].keys =
                          Append(L.keys, At(P.keys, idx - 1)) \o N.keys,
                       !.heap[left].children = L.children \o N.children]
              T2 == Reparent(T1, N.children, 0, left)
          IN deleteFromParent(T2, parent, idx - 1, n)
     ELSE IF idx < Len(P.children) - 1
     THEN LET T1 == [T EXCEPT
                       !.heap[n].keys = Append(N.keys, At(P.keys, idx)) \o R.keys,
                       !.heap[n].children = N.children \o R.children]
              T2 == Reparent(T1, R.children, 0, n)
          IN deleteFromParent(T2, parent, idx, right)
     ELSE T

\* rebalanceLeaf(leaf)
rebalanceLeaf(T, leaf) ==
  LET parent == T.heap[leaf].parent
      P == T.heap[parent]
      N == T.heap[leaf]
      idx == ChildIndex(P.children, 0, leaf)
      left == At(P.children, idx - 1)
      right == At(P.children, idx + 1)
      L == T.heap[left]
      R == T.heap[right]
  IN IF parent = Nil THEN T
     ELSE IF idx > 0 /\ Len(L.entries) > minLeafEntries(T)
     THEN LET borrowed == At(L.entries, Len(L.entries) - 1)
          IN [T EXCEPT
                !.heap[left].entries = Slice(L.entries, 0, Len(L.entries) - 1),
                !.heap[leaf].entries = <<borrowed>> \o N.entries,
                !.heap[parent].keys = SetAt(P.keys, idx - 1, borrowed.Key)]
     ELSE IF idx < Len(P.children) - 1 /\ Len(R.entries) > minLeafEntries(T)
     THEN LET borrowed == At(R.entries, 0)
              rest == Slice(R.entries, 1, Len(R.entries))
          IN [T EXCEPT
                !.heap[right].entries = rest,
                !.heap[leaf].entries = Append(N.entries, borrowed),
                !.heap[parent].keys = SetAt(P.keys, idx, At(rest, 0).Key)]
     ELSE IF idx > 0
     THEN deleteFromParent(
            [T EXCEPT !.heap[left].entries = L.entries \o N.entries,
                      !.heap[left].next = N.next],
            parent, idx - 1, leaf)
     ELSE IF idx < Len(P.children) - 1
     THEN deleteFromParent(
            [T EXCEPT !.heap[leaf].entries = N.entries \o R.entries,
                      !.heap[leaf].next = R.next],
            parent, idx, right)
     ELSE T

\* Delete that leaves an emptied root leaf in place.
BPDelete_KeepEmptyRoot(T, key) ==
  IF T.root = Nil THEN [tree |-> T, ok |-> FALSE]
  ELSE LET leaf == findLeaf(T, key)
           idx == EntryIndex(T.heap[leaf].entries, 0, key)
           T1 == [T EXCEPT !.heap[leaf].entries =
                    RemoveAt(T.heap[leaf].entries, idx)]
       IN IF idx = -1 THEN [tree |-> T, ok |-> FALSE]
          ELSE IF leaf = T1.root
          THEN [tree |-> T1, ok |-> TRUE]
          ELSE [tree |-> IF Len(T1.heap[leaf].entries) < minLeafEntries(T1)
                         THEN rebalanceLeaf(T1, leaf)
                         ELSE T1,
                ok |-> TRUE]

\* Delete(key): [tree, ok]
BPDelete(T, key) ==
  IF T.root = Nil THEN [tree |-> T, ok |-> FALSE]
  ELSE LET leaf == findLeaf(T, key)
           idx == EntryIndex(T.heap[leaf].entries, 0, key)
           T1 == [T EXCEPT !.heap[leaf].entries =
                    RemoveAt(T.heap[leaf].entries, idx)]
       IN IF idx = -1 THEN [tree |-> T, ok |-> FALSE]
          ELSE IF leaf = T1.root
          THEN [tree |-> IF Len(T1.heap[leaf].entries) = 0
                         THEN [T1 EXCEPT !.root = Nil]
                         ELSE T1,
                ok |-> TRUE]
          ELSE [tree |-> IF Len(T1.heap[leaf].entries) < minLeafEntries(T1)
                         THEN rebalanceLeaf(T1, leaf)
                         ELSE T1,
                ok |-> TRUE]

\* The leaves the walk  for leaf != nil { ...; leaf = leaf.next }  visits from
\* leaf on; the walk is cut after fuel leaves.
RECURSIVE ChainFrom(_, _, _)
ChainFrom(T, leaf, fuel) ==
  IF leaf = Nil \/ fuel = 0 THEN <<>>
  ELSE <<leaf>> \o ChainFrom(T, T.heap[leaf].next, fuel - 1)

\* A walk over more leaves than the heap holds nodes never ends.
WalkFuel(T) == Len(T.heap) + 1
LeafChain(T) == ChainFrom(T, firstLeaf(T), WalkFuel(T))
ChainEnds(T) == Len(LeafChain(T)) <= Len(T.heap)

RECURSIVE ConcatEntries(_, _, _)
ConcatEntries(T, chain, i) ==
  IF i >= Len(chain) THEN <<>>
  ELSE T.heap[At(chain, i)].entries \o ConcatEntries(T, chain, i + 1)

\* All(): nil (the empty sequence) for an empty tree.
All(T) == IF T.root = Nil THEN <<>> ELSE ConcatEntries(T, LeafChain(T), 0)

\* Len()
BPLen(T) == IF T.root = Nil THEN 0 ELSE Len(ConcatEntries(T, LeafChain(T), 0))

\* The inner loop of Range with e.Key < end in place of e.Key <= end.
RECURSIVE RangeLeaf_ExclusiveEnd(_, _, _, _)
RangeLeaf_ExclusiveEnd(entries, i, start, end) ==
  IF i >= Len(entries) THEN [res |-> <<>>, stop |-> FALSE]
  ELSE LET e == At(entries, i)
       IN IF e.Key >= start /\ e.Key < end
          THEN LET r == RangeLeaf_ExclusiveEnd(entries, i + 1, start, end)
               IN [res |-> <<e>> \o r.res, stop |-> r.stop]
          ELSE IF e.Key > end
               THEN [res |-> <<>>, stop |-> TRUE]
               ELSE RangeLeaf_ExclusiveEnd(entries, i + 1, start, end)

\* The inner loop of Range without the test e.Key >= start.
RECURSIVE RangeLeaf_NoStartTest(_, _, _, _)
RangeLeaf_NoStartTest(entries, i, start, end) ==
  IF i >= Len(entries) THEN [res |-> <<>>, stop |-> FALSE]
  ELSE LET e == At(entries, i)
       IN IF e.Key <= end
          THEN LET r == RangeLeaf_NoStartTest(entries, i + 1, start, end)
               IN [res |-> <<e>> \o r.res, stop |-> r.stop]
          ELSE [res |-> <<>>, stop |-> TRUE]

\* The inner loop of Range over one leaf, from entry i: [res, stop], the
\* entries appended and whether the loop returned.
RECURSIVE RangeLeaf(_, _, _, _)
RangeLeaf(entries, i, start, end) ==
  IF i >= Len(entries) THEN [res |-> <<>>, stop |-> FALSE]
  ELSE LET e == At(entries, i)
       IN IF e.Key >= start /\ e.Key <= end
          THEN LET r == RangeLeaf(entries, i + 1, start, end)
               IN [res |-> <<e>> \o r.res, stop |-> r.stop]
          ELSE IF e.Key > end
               THEN [res |-> <<>>, stop |-> TRUE]
               ELSE RangeLeaf(entries, i + 1, start, end)

\* The outer loop of Range from leaf: [res, done]; done is FALSE when the
\* walk does not end.
RECURSIVE RangeFrom(_, _, _, _, _)
RangeFrom(T, leaf, start, end, fuel) ==
  IF leaf = Nil THEN [res |-> <<>>, done |-> TRUE]
  ELSE IF fuel = 0 THEN [res |-> <<>>, done |-> FALSE]
  ELSE LET r == RangeLeaf(T.heap[leaf].entries, 0, start, end)
       IN IF r.stop THEN [res |-> r.res, done |-> TRUE]
          ELSE LET rest == RangeFrom(T, T.heap[leaf].next, start, end, fuel - 1)
               IN [res |-> r.res \o rest.res, done |-> rest.done]

\* Range(start, end)
Range(T, start, end) ==
  IF T.root = Nil THEN [res |-> <<>>, done |-> TRUE]
  ELSE RangeFrom(T, findLeaf(T, start), start, end, WalkFuel(T))

\* ---------------------------------------------------- garbage collection
\* A node that no pointer path from the root reaches is collected, and node
\* references are renumbered in the preorder of the tree (a reference has no
\* observable value of its own).
IsIn(seq, x) == \E i \in 1..Len(seq) : seq[i] = x

RECURSIVE PreOrder(_, _, _)
RECURSIVE PreOrderKids(_, _, _, _)
PreOrder(T, n, acc) ==
  IF n = Nil \/ IsIn(acc, n) THEN acc
  ELSE PreOrderKids(T, T.heap[n].children, 0, Append(acc, n))
PreOrderKids(T, children, i, acc) ==
  IF i >= Len(children) THEN acc
  ELSE PreOrderKids(T, children, i + 1, PreOrder(T, At(children, i), acc))

\* The pointers a node holds.
Pointers(node) ==
  ({node.next, node.parent} \cup {node.children[i] : i \in 1..Len(node.children)})
  \ {Nil}

RECURSIVE Closure(_, _)
Closure(T, S) ==
  LET S2 == S \cup UNION {Pointers(T.heap[n]) : n \in S}
  IN IF S2 = S THEN S ELSE Closure(T, S2)

RECURSIVE Sorted(_)
Sorted(S) ==
  IF S = {} THEN <<>>
  ELSE LET m == CHOOSE x \in S : \A y \in S : x <= y
       IN <<m>> \o Sorted(S \ {m})

Collect(T) ==
  LET tree == PreOrder(T, T.root, <<>>)
      live == IF T.root = Nil THEN {} ELSE Closure(T, {T.root})
      order == tree \o Sorted(live \ {tree[i] : i \in 1..Len(tree)})
      ren(p) == IF p = Nil THEN Nil ELSE CHOOSE i \in 1..Len(order) : order[i] = p
      move(node) ==
        [node EXCEPT !.next = ren(node.next),
                     !.parent = ren(node.parent),
                     !.children = [i \in 1..Len(node.children) |->
                                     ren(node.children[i])]]
  IN [root |-> ren(T.root), degree |-> T.degree,
      heap |-> [i \in 1..Len(order) |-> move(T.heap[order[i]])]]

\* ------------------------------------------------- observers of the tree
\* The nodes of the tree: those a chain of child links from the root reaches.
TreeNodes(T) ==
  LET order == PreOrder(T, T.root, <<>>)
  IN {order[i] : i \in 1..Len(order)}

TreeLeaves(T) == {n \in TreeNodes(T) : T.heap[n].isLeaf}

\* The keys of the entries in the subtree of node n.
RECURSIVE SubtreeKeys(_, _)
SubtreeKeys(T, n) ==
  IF T.heap[n].isLeaf
  THEN {T.heap[n].entries[i].Key : i \in 1..Len(T.heap[n].entries)}
  ELSE UNION {SubtreeKeys(T, T.heap[n].children[i]) :
                i \in 1..Len(T.heap[n].children)}

\* The depths of the leaves below node n, itself at depth d.
RECURSIVE BPLeafDepths(_, _, _)
BPLeafDepths(T, n, d) ==
  IF T.heap[n].isLeaf THEN {d}
  ELSE UNION {BPLeafDepths(T, T.heap[n].children[i], d + 1) :
                i \in 1..Len(T.heap[n].children)}

\* The depth of the leaves (0 for an empty tree and for a leaf root).
BPHeight(T) == IF T.root = Nil THEN 0
               ELSE LET D == BPLeafDepths(T, T.root, 0)
                    IN CHOOSE d \in D : \A e \in D : d <= e

\* ================================================================= RTree
\* Coordinates are small integers, on which Go's float64 arithmetic is exact.
\* A rectangle is [MinX, MinY, MaxX, MaxY], a point [X, Y], an item
\* [Bounds, Data].  The tree is [root, minEntries, maxEntries, size, heap];
\* heap is the sequence of the nodes allocated so far, a *Node is an index
\* into it, and a node is [isLeaf, bounds, children, items, parent].
NewRectangle(minX, minY, maxX, maxY) ==
  [MinX |-> minX, MinY |-> minY, MaxX |-> maxX, MaxY |-> maxY]

\* Rectangle{}
ZeroRect == NewRectangle(0, 0, 0, 0)

\* The nil *Item.
NilItem == [Bounds |-> ZeroRect, Data |-> 0]

\* math.Min, math.Max
Min(a, b) == IF a < b THEN a ELSE b
Max(a, b) == IF a > b THEN a ELSE b

Area(r) == (r.MaxX - r.MinX) * (r.MaxY - r.MinY)

Margin(r) == (r.MaxX - r.MinX) + (r.MaxY - r.MinY)

\* Intersects on open rectangles: touching edges and corners do not count.
Intersects_Open(r, other) ==
  /\ r.MinX < other.MaxX /\ r.MaxX > other.MinX
  /\ r.MinY < other.MaxY /\ r.MaxY > other.MinY
Intersects(r, other) ==
  /\ r.MinX <= other.MaxX /\ r.MaxX >= other.MinX
  /\ r.MinY <= other.MaxY /\ r.MaxY >= other.MinY

ContainsPoint(r, p) ==
  /\ p.X >= r.MinX /\ p.X <= r.MaxX
  /\ p.Y >= r.MinY /\ p.Y <= r.MaxY

Union(r, other) ==
  [MinX |-> Min(r.MinX, other.MinX), MinY |-> Min(r.MinY, other.MinY),
   MaxX |-> Max(r.MaxX, other.MaxX), MaxY |-> Max(r.MaxY, other.MaxY)]

\* Expand that leaves MaxY as it was.
Expand_KeepMaxY(r, other) ==
  [MinX |-> Min(r.MinX, other.MinX), MinY |-> Min(r.MinY, other.MinY),
   MaxX |-> Max(r.MaxX, other.MaxX), MaxY |-> r.MaxY]
\* r.Expand(other): the value of r after the call.
Expand(r, other) ==
  [MinX |-> Min(r.MinX, other.MinX), MinY |-> Min(r.MinY, other.MinY),
   MaxX |-> Max(r.MaxX, other.MaxX), MaxY |-> Max(r.MaxY, other.MaxY)]

EnlargementNeeded(r, other) == Area(Union(r, other)) - Area(r)

\* Distance that measures along the X axis only.
Distance_XOnly(r, p) ==
  LET dx == Max(0, Max(r.MinX - p.X, p.X - r.MaxX))
  IN dx * dx
\* r.Distance(p) squared: Go returns math.Sqrt(dx*dx + dy*dy) and only ever
\* compares two such values with <; on the integers dx*dx + dy*dy reached
\* here math.Sqrt is strictly increasing, so the comparisons agree.
Distance(r, p) ==
  LET dx == Max(0, Max(r.MinX - p.X, p.X - r.MaxX))
      dy == Max(0, Max(r.MinY - p.Y, p.Y - r.MaxY))
  IN dx * dx + dy * dy

\* &Node{isLeaf: true}
RTLeaf(parent) ==
  [isLeaf |-> TRUE, bounds |-> ZeroRect, children |-> <<>>, items |-> <<>>,
   parent |-> parent]

\* Go's a / b on ints for b > 0: the quotient is truncated toward zero.
GoDiv(a, b) == IF a >= 0 THEN a \div b ELSE 0 - ((0 - a) \div b)

\* NewRTree(minEntries, maxEntries)
NewRTree(minEntries, maxEntries) ==
  [root |-> 1,
   minEntries |-> IF minEntries < 1 \/ minEntries > GoDiv(maxEntries, 2)
                  THEN GoDiv(maxEntries, 2) ELSE minEntries,
   maxEntries |-> maxEntries,
   size |-> 0,
   heap |-> <<RTLeaf(Nil)>>]

\* The loop of chooseLeaf with area <= minArea in the tie-break, which takes
\* the last of the children equal in enlargement and area.
RECURSIVE chooseChild_LastOnTie(_, _, _, _, _, _, _)
chooseChild_LastOnTie(T, children, i, bounds, best, minEnlargement, minArea) ==
  IF i >= Len(children) THEN best
  ELSE LET child == At(children, i)
           enlargement == EnlargementNeeded(T.heap[child].bounds, bounds)
           area == Area(T.heap[child].bounds)
       IN IF enlargement < minEnlargement
             \/ (enlargement = minEnlargement /\ area <= minArea)
          THEN chooseChild_LastOnTie(T, children, i + 1, bounds, child,
                                     enlargement, area)
          ELSE chooseChild_LastOnTie(T, children, i + 1, bounds, best,
                                     minEnlargement, minArea)

\* The loop of chooseLeaf over the children from index i on: the best child.
RECURSIVE chooseChild(_, _, _, _, _, _, _)
chooseChild(T, children, i, bounds, best, minEnlargement, minArea) ==
  IF i >= Len(children) THEN best
  ELSE LET child == At(children, i)
           enlargement == EnlargementNeeded(T.heap[child].bounds, bounds)
           area == Area(T.heap[child].bounds)
       IN IF enlargement < minEnlargement
             \/ (enlargement = minEnlargement /\ area < minArea)
          THEN chooseChild(T, children, i + 1, bounds, child, enlargement, area)
          ELSE chooseChild(T, children, i + 1, bounds, best,
                           minEnlargement, minArea)

\* chooseLeaf(node, bounds)
RECURSIVE chooseLeaf(_, _, _)
chooseLeaf(T, node, bounds) ==
  IF T.heap[node].isLeaf THEN node
  ELSE chooseLeaf(T, chooseChild(T, T.heap[node].children, 0, bounds, Nil,
                                 MaxFloat64, MaxFloat64),
                  bounds)

\* The bounds of entry e of a node: an item's Bounds, a child's bounds.
EntryBounds(T, isItems, e) == IF isItems THEN e.Bounds ELSE T.heap[e].bounds

\* r := entries[first]; for j := first + 1; j < last; j++ { r.Expand(entries[j]) }
RECURSIVE ExpandOver(_, _, _, _, _, _)
ExpandOver(T, isItems, entries, j, last, r) ==
  IF j >= last THEN r
  ELSE ExpandOver(T, isItems, entries, j + 1, last,
                  Expand(r, EntryBounds(T, isItems, At(entries, j))))

GroupBounds(T, isItems, entries, first, last) ==
  ExpandOver(T, isItems, entries, first + 1, last,
             EntryBounds(T, isItems, At(entries, first)))

\* updateBounds(node)
\* updateBounds without the call on node.parent.
updateBounds_Local(T, node) ==
  LET N == T.heap[node]
      entries == IF N.isLeaf THEN N.items ELSE N.children
  IN IF Len(entries) = 0 THEN T
     ELSE [T EXCEPT !.heap[node].bounds =
                      GroupBounds(T, N.isLeaf, entries, 0, Len(entries))]
RECURSIVE updateBounds(_, _)
updateBounds(T, node) ==
  LET N == T.heap[node]
      entries == IF N.isLeaf THEN N.items ELSE N.children
  IN IF Len(entries) = 0 THEN T
     ELSE LET T1 == [T EXCEPT !.heap[node].bounds =
                       GroupBounds(T, N.isLeaf, entries, 0, Len(entries))]
          IN IF N.parent # Nil THEN updateBounds(T1, N.parent) ELSE T1

\* The lower bound of an entry on an axis (0 is X, 1 is Y).
LowerBound(T, isItems, e, axis) ==
  IF axis = 0 THEN EntryBounds(T, isItems, e).MinX
  ELSE EntryBounds(T, isItems, e).MinY

\* The sort that makes the first pass only: the least entry comes first and
\* the rest stays as the pass leaves it.
RECURSIVE ExchangeSort_OnePass(_, _, _, _, _, _)
ExchangeSort_OnePass(T, isItems, axis, s, i, j) ==
  IF i >= 1 \/ j >= Len(s) THEN s
  ELSE IF LowerBound(T, isItems, At(s, i), axis)
          > LowerBound(T, isItems, At(s, j), axis)
       THEN ExchangeSort_OnePass(T, isItems, axis,
                                 SetAt(SetAt(s, i, At(s, j)), j, At(s, i)),
                                 i, j + 1)
       ELSE ExchangeSort_OnePass(T, isItems, axis, s, i, j + 1)

\* for i := 0; i < len(s)-1; i++ { for j := i + 1; j < len(s); j++ {
\*   if lower(s[i]) > lower(s[j]) { s[i], s[j] = s[j], s[i] } } }
RECURSIVE ExchangeSort(_, _, _, _, _, _)
ExchangeSort(T, isItems, axis, s, i, j) ==
  IF i >= Len(s) - 1 THEN s
  ELSE IF j >= Len(s) THEN ExchangeSort(T, isItems, axis, s, i + 1, i + 2)
  ELSE IF LowerBound(T, isItems, At(s, i), axis)
          > LowerBound(T, isItems, At(s, j), axis)
       THEN ExchangeSort(T, isItems, axis,
                         SetAt(SetAt(s, i, At(s, j)), j, At(s, i)), i, j + 1)
       ELSE ExchangeSort(T, isItems, axis, s, i, j + 1)

sortItemsByMinX(T, items) == ExchangeSort(T, TRUE, 0, items, 0, 1)
sortItemsByMinY(T, items) == ExchangeSort(T, TRUE, 1, items, 0, 1)
sortNodesByMinX(T, nodes) == ExchangeSort(T, FALSE, 0, nodes, 0, 1)
sortNodesByMinY(T, nodes) == ExchangeSort(T, FALSE, 1, nodes, 0, 1)

\* The entries of a node and the node with its entries replaced.
Entries(T, node) ==
  IF T.heap[node].isLeaf THEN T.heap[node].items ELSE T.heap[node].children

WithEntries(T, node, entries) ==
  IF T.heap[node].isLeaf THEN [T EXCEPT !.heap[node].items = entries]
  ELSE [T EXCEPT !.heap[node].children = entries]

\* The node with its entries sorted in place by the lower bound on axis.
SortEntries(T, node, axis) ==
  WithEntries(T, node,
    IF T.heap[node].isLeaf
    THEN (IF axis = 0 THEN sortItemsByMinX(T, T.heap[node].items)
          ELSE sortItemsByMinY(T, T.heap[node].items))
    ELSE (IF axis = 0 THEN sortNodesByMinX(T, T.heap[node].children)
          ELSE sortNodesByMinY(T, T.heap[node].children)))

\* calculateMarginSum(node, isItems): the loop from position i on.
RECURSIVE marginSumFrom(_, _, _, _, _)
marginSumFrom(T, isItems, entries, i, sum) ==
  IF i > Len(entries) - T.minEntries THEN sum
  ELSE LET r1 == GroupBounds(T, isItems, entries, 0, i)
           r2 == GroupBounds(T, isItems, entries, i, Len(entries))
       IN marginSumFrom(T, isItems, entries, i + 1,
                        sum + Margin(r1) + Margin(r2))

calculateMarginSum(T, node, isItems) ==
  marginSumFrom(T, isItems,
                IF isItems THEN T.heap[node].items ELSE T.heap[node].children,
                T.minEntries, 0)

\* chooseSplitAxis that returns the X axis when the margin sums are equal.
chooseSplitAxis_XOnTie(T, node) ==
  LET isItems == T.heap[node].isLeaf
      T1 == SortEntries(T, node, 0)
      xMargin == calculateMarginSum(T1, node, isItems)
      T2 == SortEntries(T1, node, 1)
      yMargin == calculateMarginSum(T2, node, isItems)
  IN [tree |-> T2, axis |-> IF xMargin <= yMargin THEN 0 ELSE 1]

\* chooseSplitAxis(node): [tree, axis]; the node's entries are left sorted
\* by MinX and then by MinY.
chooseSplitAxis(T, node) ==
  LET isItems == T.heap[node].isLeaf
      T1 == SortEntries(T, node, 0)
      xMargin == calculateMarginSum(T1, node, isItems)
      T2 == SortEntries(T1, node, 1)
      yMargin == calculateMarginSum(T2, node, isItems)
  IN [tree |-> T2, axis |-> IF xMargin < yMargin THEN 0 ELSE 1]

\* The loop of chooseSplitIndex with area <= minArea in the tie-break, which
\* takes the last of the positions equal in overlap and area.
RECURSIVE splitIndexFrom_LastOnTie(_, _, _, _, _, _, _)
splitIndexFrom_LastOnTie(T, isItems, entries, i, minOverlap, minArea, bestIndex) ==
  IF i > Len(entries) - T.minEntries THEN bestIndex
  ELSE LET r1 == GroupBounds(T, isItems, entries, 0, i)
           r2 == GroupBounds(T, isItems, entries, i, Len(entries))
           ix == Min(r1.MaxX, r2.MaxX) - Max(r1.MinX, r2.MinX)
           iy == Min(r1.MaxY, r2.MaxY) - Max(r1.MinY, r2.MinY)
           overlap == IF Intersects(r1, r2) THEN ix * iy ELSE 0
           area == Area(r1) + Area(r2)
       IN IF overlap < minOverlap \/ (overlap = minOverlap /\ area <= minArea)
          THEN splitIndexFrom_LastOnTie(T, isItems, entries, i + 1, overlap,
                                        area, i)
          ELSE splitIndexFrom_LastOnTie(T, isItems, entries, i + 1,
                                        minOverlap, minArea, bestIndex)

\* The loop of chooseSplitIndex from position i on: the best index.
RECURSIVE splitIndexFrom(_, _, _, _, _, _, _)
splitIndexFrom(T, isItems, entries, i, minOverlap, minArea, bestIndex) ==
  IF i > Len(entries) - T.minEntries THEN bestIndex
  ELSE LET r1 == GroupBounds(T, isItems, entries, 0, i)
           r2 == GroupBounds(T, isItems, entries, i, Len(entries))
           ix == Min(r1.MaxX, r2.MaxX) - Max(r1.MinX, r2.MinX)
           iy == Min(r1.MaxY, r2.MaxY) - Max(r1.MinY, r2.MinY)
           overlap == IF Intersects(r1, r2) THEN ix * iy ELSE 0
           area == Area(r1) + Area(r2)
       IN IF overlap < minOverlap \/ (overlap = minOverlap /\ area < minArea)
          THEN splitIndexFrom(T, isItems, entries, i + 1, overlap, area, i)
          ELSE splitIndexFrom(T, isItems, entries, i + 1, minOverlap, minArea,
                              bestIndex)

\* chooseSplitIndex that always splits after the first entry.
chooseSplitIndex_First(T, node, axis) ==
  [tree |-> SortEntries(T, node, axis), index |-> 1]

\* chooseSplitIndex(node, axis): [tree, index]; the node's entries are left
\* sorted by the lower bound on axis.
chooseSplitIndex(T, node, axis) ==
  LET T1 == SortEntries(T, node, axis)
  IN [tree |-> T1,
      index |-> splitIndexFrom(T1, T1.heap[node].isLeaf, Entries(T1, node),
                               T1.minEntries, MaxFloat64, MaxFloat64,
                               T1.minEntries)]

\* The split that leaves the parent links of the moved children as they
\* are.
RTReparent_Skip(T, children, i, p) == T

\* for _, child := range children { child.parent = p }
RECURSIVE RTReparent(_, _, _, _)
RTReparent(T, children, i, p) ==
  IF i >= Len(children) THEN T
  ELSE RTReparent([T EXCEPT !.heap[At(children, i)].parent = p],
                  children, i + 1, p)

\* splitNode(node), in the order of the source; newN is the source's
\* newNode.
RECURSIVE splitNode(_, _)

\* t.root = &Node{isLeaf: false, children: []*Node{node, newNode}};
\* node.parent = t.root; newNode.parent = t.root; t.updateBounds(t.root)
splitRoot(T, node, newN, root) ==
  updateBounds(
    [Alloc(T, [isLeaf |-> FALSE, bounds |-> ZeroRect,
               children |-> <<node, newN>>, items |-> <<>>, parent |-> Nil])
       EXCEPT !.root = root,
              !.heap[node].parent = root,
              !.heap[newN].parent = root],
    root)

\* if len(node.parent.children) > t.maxEntries { t.splitNode(node.parent) }
\* else { t.updateBounds(node.parent) }
splitOrUpdate(T, parent) ==
  IF Len(T.heap[parent].children) > T.maxEntries
  THEN splitNode(T, parent)
  ELSE updateBounds(T, parent)

\* The attachment that makes a new root over node and newNode even when
\* node has a parent.
linkNewNode_AlwaysRoot(T, node, newN) == splitRoot(T, node, newN, NewRef(T))

\* if node.parent == nil { ... } else { node.parent.children =
\* append(node.parent.children, newNode); ... }
linkNewNode(T, node, newN) ==
  IF T.heap[node].parent = Nil
  THEN splitRoot(T, node, newN, NewRef(T))
  ELSE splitOrUpdate(
         [T EXCEPT !.heap[T.heap[node].parent].children = Append(@, newN)],
         T.heap[node].parent)

\* newNode := &Node{isLeaf: node.isLeaf, parent: node.parent} and the move
\* of the entries from index on to it.
moveEntries(T, node, index, newN) ==
  IF T.heap[node].isLeaf
  THEN [Alloc(T, [isLeaf |-> TRUE, bounds |-> ZeroRect, children |-> <<>>,
                  items |-> Slice(T.heap[node].items, index,
                                  Len(T.heap[node].items)),
                  parent |-> T.heap[node].parent])
          EXCEPT !.heap[node].items = Slice(@, 0, index)]
  ELSE RTReparent(
         [Alloc(T, [isLeaf |-> FALSE, bounds |-> ZeroRect,
                    children |-> Slice(T.heap[node].children, index,
                                       Len(T.heap[node].children)),
                    items |-> <<>>, parent |-> T.heap[node].parent])
            EXCEPT !.heap[node].children = Slice(@, 0, index)],
         Slice(T.heap[node].children, index, Len(T.heap[node].children)),
         0, newN)

\* The rest of splitNode once axis and index are chosen; b is [tree, index].
splitAt(b, node, newN) ==
  linkNewNode(
    updateBounds(updateBounds(moveEntries(b.tree, node, b.index, newN), node),
                 newN),
    node, newN)

splitNode(T, node) ==
  LET a == chooseSplitAxis(T, node)
  IN splitAt(chooseSplitIndex(a.tree, node, a.axis), node, NewRef(T))

\* The calls of splitNode that splitNode(node) makes, itself first: each is
\* the tree at the call and the node split.  The call on node.parent is
\* made with the entries moved, the bounds of the two halves updated and
\* newNode appended to the parent's children.
RECURSIVE splitNodeCalls(_, _)
splitNodeCalls(T, node) ==
  LET a == chooseSplitAxis(T, node)
      b == chooseSplitIndex(a.tree, node, a.axis)
      newN == NewRef(T)
      T1 == updateBounds(updateBounds(moveEntries(b.tree, node, b.index, newN),
                                      node), newN)
      parent == T.heap[node].parent
      T2 == [T1 EXCEPT !.heap[parent].children = Append(@, newN)]
  IN <<[tree |-> T, node |-> node]>>
     \o (IF parent # Nil /\ Len(T2.heap[parent].children) > T2.maxEntries
         THEN splitNodeCalls(T2, parent) ELSE <<>>)

\* Insert without t.size++.
RTInsert_NoCount(T, item) ==
  LET leaf == chooseLeaf(T, T.root, item.Bounds)
      T3 == updateBounds([T EXCEPT !.heap[leaf].items = Append(@, item)], leaf)
  IN IF Len(T3.heap[leaf].items) > T3.maxEntries
     THEN splitNode(T3, leaf)
     ELSE T3

\* Insert(item): the tree after the call.
RTInsert(T, item) ==
  LET T1 == [T EXCEPT !.size = @ + 1]
      leaf == chooseLeaf(T1, T1.root, item.Bounds)
      T2 == [T1 EXCEPT !.heap[leaf].items = Append(@, item)]
      T3 == updateBounds(T2, leaf)
  IN IF Len(T3.heap[leaf].items) > T3.maxEntries
     THEN splitNode(T3, leaf)
     ELSE T3

\* searchNode(node, bounds, result): the items appended to result.
RECURSIVE rtSearchNode(_, _, _)
RECURSIVE rtSearchKids(_, _, _, _)
rtSearchNode(T, node, bounds) ==
  LET N == T.heap[node]
  IN IF ~Intersects(N.bounds, bounds) THEN <<>>
     ELSE IF N.isLeaf
     THEN SelectSeq(N.items, LAMBDA item : Intersects(item.Bounds, bounds))
     ELSE rtSearchKids(T, N.children, 0, bounds)
rtSearchKids(T, children, i, bounds) ==
  IF i >= Len(children) THEN <<>>
  ELSE rtSearchNode(T, At(children, i), bounds)
       \o rtSearchKids(T, children, i + 1, bounds)

\* Search(bounds)
RTSearch(T, bounds) == rtSearchNode(T, T.root, bounds)

\* searchPointNode(node, p, result): the items appended to result.
RECURSIVE searchPointNode(_, _, _)
RECURSIVE searchPointKids(_, _, _, _)
searchPointNode(T, node, p) ==
  LET N == T.heap[node]
  IN IF ~ContainsPoint(N.bounds, p) THEN <<>>
     ELSE IF N.isLeaf
     THEN SelectSeq(N.items, LAMBDA item : ContainsPoint(item.Bounds, p))
     ELSE searchPointKids(T, N.children, 0, p)
searchPointKids(T, children, i, p) ==
  IF i >= Len(children) THEN <<>>
  ELSE searchPointNode(T, At(children, i), p)
       \o searchPointKids(T, children, i + 1, p)

\* SearchPoint(p)
SearchPoint(T, p) == searchPointNode(T, T.root, p)

\* The minimum scan that stops at the first queue element.
MinIdx_First(queue, i, minIdx) == minIdx

\* The index of the first queue element of least distance:
\* for i := 1; i < len(queue); i++ { if queue[i].distance <
\* queue[minIdx].distance { minIdx = i } }
RECURSIVE MinIdx(_, _, _)
MinIdx(queue, i, minIdx) ==
  IF i >= Len(queue) THEN minIdx
  ELSE MinIdx(queue, i + 1,
              IF At(queue, i).distance < At(queue, minIdx).distance
              THEN i ELSE minIdx)

\* The queue elements a popped node adds.
Expansion(T, node, p) ==
  IF T.heap[node].isLeaf
  THEN [i \in 1..Len(T.heap[node].items) |->
          [node |-> Nil, item |-> T.heap[node].items[i],
           distance |-> Distance(T.heap[node].items[i].Bounds, p)]]
  ELSE [i \in 1..Len(T.heap[node].children) |->
          [node |-> T.heap[node].children[i], item |-> NilItem,
           distance |-> Distance(T.heap[T.heap[node].children[i]].bounds, p)]]

\* One pass of the loop of NearestNeighbor over S = [queue, result].
nnStep(T, p, S) ==
  LET minIdx == MinIdx(S.queue, 1, 0)
      current == At(S.queue, minIdx)
      queue2 == RemoveAt(S.queue, minIdx)
  IN IF current.item # NilItem
     THEN [queue |-> queue2, result |-> Append(S.result, current.item)]
     ELSE [queue |-> queue2 \o Expansion(T, current.node, p),
           result |-> S.result]

\* for len(queue) > 0 && len(result) < k { ... }
nnContinues(k, S) == Len(S.queue) > 0 /\ Len(S.result) < k

RECURSIVE nnLoop(_, _, _, _)
nnLoop(T, p, k, S) ==
  IF ~nnContinues(k, S) THEN S.result
  ELSE nnLoop(T, p, k, nnStep(T, p, S))

\* queue and result before the loop.
nnStart(T, p) ==
  [queue |-> <<[node |-> T.root, item |-> NilItem,
                distance |-> Distance(T.heap[T.root].bounds, p)]>>,
   result |-> <<>>]

\* NearestNeighbor(p, k)
NearestNeighbor(T, p, k) == nnLoop(T, p, k, nnStart(T, p))

\* Size()
RTSize(T) == T.size

\* getHeight(node)
RECURSIVE rtGetHeight(_, _)
rtGetHeight(T, node) ==
  IF T.heap[node].isLeaf THEN 1
  ELSE IF Len(T.heap[node].children) = 0 THEN 1
  ELSE 1 + rtGetHeight(T, At(T.heap[node].children, 0))

\* Height()
RTHeight(T) == rtGetHeight(T, T.root)

\* ------------------------------------------------------- RTree actions
\* The rectangles the runs insert; item i is &Item{Bounds: ItemRects[i],
\* Data: i}.  Rectangles 1 and 2 touch in the corner (1, 1), rectangle 5 is
\* a point, and items 2 and 6 are two items with equal bounds.
ItemRects ==
  <<NewRectangle(0, 0, 1, 1), NewRectangle(1, 1, 2, 2),
    NewRectangle(2, 0, 3, 1), NewRectangle(0, 2, 3, 3),
    NewRectangle(3, 3, 3, 3), NewRectangle(1, 1, 2, 2)>>
ItemIds == 1..Len(ItemRects)
ItemOf(i) == [Bounds |-> ItemRects[i], Data |-> i]
\* The (minEntries, maxEntries) arguments handed to NewRTree.
RTArgs == {<<0, 2>>, <<1, 3>>, <<2, 4>>}
\* rtItems[i] is the number of times item i was inserted; rtPanic says that
\* an Insert call ended in a run-time panic.
RTStart(minEntries, maxEntries) ==
  /\ rt = NewRTree(minEntries, maxEntries)
  /\ rtItems = [i \in ItemIds |-> 0]
  /\ rtPanic = FALSE

RTInsertCall ==
  \E i \in ItemIds :
    /\ RTSize(rt) < MaxItems
    /\ rt' = RTInsert(rt, ItemOf(i))
    /\ rtItems' = [rtItems EXCEPT ![i] = @ + 1]
    /\ UNCHANGED rtPanic
    /\ UNCHANGED <<btVars, bpVars, rd>>

\* ------------------------------------------------------- BTree actions
\* btRef is the reference map driven by the same calls (key -> value, ZeroV
\* for an absent key); btFresh says that no Insert so far was called with a
\* key the reference map held; btLast records the last call: present and
\* inRef say whether the tree and the reference map held the key before it,
\* size and height are Size() and Height() before it.  btRound follows a
\* round trip (fill the tree, then empty it): deleting says that the
\* emptying has begun and peak is the height the filling reached.
EmptyRef == [k \in AllKeys |-> ZeroV]
NoOp == [op |-> "New", key |-> 0, val |-> ZeroV, ret |-> FALSE,
         present |-> FALSE, inRef |-> FALSE, size |-> 0, height |-> 0]

BTStart(d) ==
  /\ bt = NewBTree(d)
  /\ btRef = EmptyRef
  /\ btFresh = TRUE
  /\ btLast = NoOp
  /\ btRound = [deleting |-> FALSE, peak |-> 0]

\* One call bt.Insert(k, v).
BTInsertCall(k, v) ==
  /\ bt' = Insert(bt, k, v)
  /\ btRef' = [btRef EXCEPT ![k] = v]
  /\ btFresh' = (btFresh /\ btRef[k] = ZeroV)
  /\ btLast' = [op |-> "Insert", key |-> k, val |-> v, ret |-> FALSE,
                present |-> Search(bt, k).found, inRef |-> btRef[k] # ZeroV,
                size |-> Size(bt), height |-> Height(bt)]
  /\ UNCHANGED btRound
  /\ UNCHANGED <<bpVars, rtVars, rd>>

\* One call bt.Delete(k).
BTDeleteCall(k) ==
  LET r == Delete(bt, k)
  IN /\ bt' = r.tree
     /\ btRef' = [btRef EXCEPT ![k] = ZeroV]
     /\ btFresh' = btFresh
     /\ btLast' = [op |-> "Delete", key |-> k, val |-> ZeroV, ret |-> r.ok,
                   present |-> Search(bt, k).found, inRef |-> btRef[k] # ZeroV,
                   size |-> Size(bt), height |-> Height(bt)]
     /\ UNCHANGED btRound
     /\ UNCHANGED <<bpVars, rtVars, rd>>

\* --------------------------------------------------- BPlusTree actions
\* bpRef is the reference map driven by the same calls; bpLast records the
\* last call: present says whether the reference map held the key before it,
\* ret is what it returned and height is the tree's height before it.
BPStart(d) ==
  /\ bp = New(d)
  /\ bpRef = [k \in BPKeys |-> ZeroV]
  /\ bpLast = [op |-> "New", ret |-> FALSE, present |-> FALSE, height |-> 0]

\* One call t.Insert(k, v).
BPInsertAct ==
  \E k \in BPKeys : \E v \in BPValsOf(k) :
    /\ bp' = Collect(BPInsert(bp, k, v))
    /\ bpRef' = [bpRef EXCEPT ![k] = v]
    /\ bpLast' = [op |-> "Insert", ret |-> FALSE,
                  present |-> bpRef[k] # ZeroV, height |-> BPHeight(bp)]
    /\ UNCHANGED <<btVars, rtVars, rd>>

\* One call t.Delete(k).
BPDeleteAct ==
  \E k \in BPKeys :
    LET r == BPDelete(bp, k)
    IN /\ bp' = Collect(r.tree)
       /\ bpRef' = [bpRef EXCEPT ![k] = ZeroV]
       /\ bpLast' = [op |-> "Delete", ret |-> r.ok,
                     present |-> bpRef[k] # ZeroV, height |-> BPHeight(bp)]
    /\ UNCHANGED <<btVars, rtVars, rd>>

\* The same calls with no record kept of the last one.
BPInsertPlain ==
  \E k \in BPKeys : \E v \in BPValsOf(k) :
    /\ bp' = Collect(BPInsert(bp, k, v))
    /\ bpRef' = [bpRef EXCEPT ![k] = v]
    /\ UNCHANGED bpLast
    /\ UNCHANGED <<btVars, rtVars, rd>>

BPDeletePlain ==
  \E k \in BPKeys :
    /\ bp' = Collect(BPDelete(bp, k).tree)
    /\ bpRef' = [bpRef EXCEPT ![k] = ZeroV]
    /\ UNCHANGED bpLast
    /\ UNCHANGED <<btVars, rtVars, rd>>

\* ------------------------------------------------------------- readers
\* Goroutines that only query the three trees.  rd.n is the number of
\* entries each tree was built with; rd.at[r] is the position of reader r:
\* idle, called with a query q it has not run yet, or done with the value
\* res its query returned.  A query is [tree, op, a, b]: a and b are its
\* arguments (a key, the ends of a range, the number of a window or of a
\* point, k), 0 where it has none.
Readers == {"r1", "r2"}
ReadKeys == 1..MaxReadKey
ReadWindow(a) == NewRectangle(a - 1, a - 1, a + 1, a + 1)
ReadPoint(a) == [X |-> a, Y |-> a - 1]

NoQuery == [tree |-> "", op |-> "", a |-> 0, b |-> 0]
Idle == [pc |-> "idle", q |-> NoQuery, res |-> 0]
NoReaders == rd = [n |-> 0, at |-> [r \in Readers |-> Idle]]

QueriesOf(tree, ops, as, bs) ==
  {[tree |-> tree, op |-> o, a |-> a, b |-> b] : o \in ops, a \in as, b \in bs}

Queries ==
  QueriesOf("BTree", {"Search"}, ReadKeys, {0})
  \cup QueriesOf("BTree", {"InOrderTraversal", "Size", "Height", "IsEmpty"},
                 {0}, {0})
  \cup QueriesOf("BPlusTree", {"Search"}, ReadKeys, {0})
  \cup QueriesOf("BPlusTree", {"Range"}, ReadKeys, ReadKeys)
  \cup QueriesOf("BPlusTree", {"All", "Len"}, {0}, {0})
  \cup QueriesOf("RTree", {"Search", "SearchPoint"}, ReadKeys, {0})
  \cup QueriesOf("RTree", {"NearestNeighbor"}, ReadKeys, ReadKeys)
  \cup QueriesOf("RTree", {"Size", "Height"}, {0}, {0})

\* The BTree queries: the tree after the call and the value returned.
\* searchNode, inOrderTraverseNode, getHeight and getSize assign only to
\* their locals and to the result slice of the call.
BTQuery(tree, q) ==
  [tree |-> tree,
   result |-> CASE q.op = "Search" -> Search(tree, q.a)
                [] q.op = "InOrderTraversal" -> InOrderTraversal(tree)
                [] q.op = "Size" -> Size(tree)
                [] q.op = "Height" -> Height(tree)
                [] q.op = "IsEmpty" -> IsEmpty(tree)]

\* The BPlusTree queries: findLeaf, firstLeaf and the walks along next
\* assign only to their locals and to the result slice of the call.
BPQuery(T, q) ==
  [tree |-> T,
   result |-> CASE q.op = "Search" -> BPSearch(T, q.a)
                [] q.op = "Range" -> Range(T, q.a, q.b)
                [] q.op = "All" -> All(T)
                [] q.op = "Len" -> BPLen(T)]

\* The root after NearestNeighbor, had it used the root's own slice as its
\* queue: removing the first element shifts the rest down in place.
ShiftDown(list) ==
  IF Len(list) < 2 THEN list ELSE Tail(list) \o <<list[Len(list)]>>

RTQuery_SharedQueue(T, q) ==
  [tree |-> IF q.op = "NearestNeighbor"
            THEN [T EXCEPT !.heap[T.root].items = ShiftDown(@),
                           !.heap[T.root].children = ShiftDown(@)]
            ELSE T,
   result |-> CASE q.op = "Search" -> RTSearch(T, ReadWindow(q.a))
                [] q.op = "SearchPoint" -> SearchPoint(T, ReadPoint(q.a))
                [] q.op = "NearestNeighbor" ->
                     NearestNeighbor(T, ReadPoint(q.a), q.b)
                [] q.op = "Size" -> RTSize(T)
                [] q.op = "Height" -> RTHeight(T)]

\* The RTree queries: searchNode and searchPointNode append to the result
\* slice of the call, NearestNeighbor to its own queue and results.
RTQuery(T, q) ==
  [tree |-> T,
   result |-> CASE q.op = "Search" -> RTSearch(T, ReadWindow(q.a))
                [] q.op = "SearchPoint" -> SearchPoint(T, ReadPoint(q.a))
                [] q.op = "NearestNeighbor" ->
                     NearestNeighbor(T, ReadPoint(q.a), q.b)
                [] q.op = "Size" -> RTSize(T)
                [] q.op = "Height" -> RTHeight(T)]

\* The value query q returns on the trees b, p and r.
RunQuery(q, b, p, r) ==
  CASE q.tree = "BTree" -> BTQuery(b, q).result
    [] q.tree = "BPlusTree" -> BPQuery(p, q).result
    [] q.tree = "RTree" -> RTQuery(r, q).result

\* The trees built with the keys (the items) 1..n, in this order.
RECURSIVE BuiltBT(_)
BuiltBT(n) ==
  IF n = 0 THEN NewBTree(2) ELSE Insert(BuiltBT(n - 1), n, ValOf(n))

RECURSIVE BuiltBP(_)
BuiltBP(n) ==
  IF n = 0 THEN New(2) ELSE Collect(BPInsert(BuiltBP(n - 1), n, ValOf(n)))

RECURSIVE BuiltRT(_)
BuiltRT(n) ==
  IF n = 0 THEN NewRTree(1, 2) ELSE RTInsert(BuiltRT(n - 1), ItemOf(n))

\* Reader r calls a query.
ReaderCall(r) ==
  \E q \in Queries :
    /\ rd.at[r].pc # "called"
    /\ rd' = [rd EXCEPT !.at[r] = [pc |-> "called", q |-> q, res |-> 0]]
    /\ UNCHANGED <<btVars, bpVars, rtVars>>

\* The query of reader r runs on the trees as they are and returns.
ReaderReturn(r) ==
  /\ rd.at[r].pc = "called"
  /\ bt' = IF rd.at[r].q.tree = "BTree" THEN BTQuery(bt, rd.at[r].q).tree ELSE bt
  /\ bp' = IF rd.at[r].q.tree = "BPlusTree" THEN BPQuery(bp, rd.at[r].q).tree ELSE bp
  /\ rt' = IF rd.at[r].q.tree = "RTree" THEN RTQuery(rt, rd.at[r].q).tree ELSE rt
  /\ rd' = [rd EXCEPT !.at[r] = [pc |-> "done", q |-> @.q,
                                 res |-> RunQuery(@.q, bt, bp, rt)]]
  /\ UNCHANGED <<btRef, btFresh, btLast, btRound, bpRef, bpLast, rtItems,
                 rtPanic>>

\* ------------------------------------------------------ specifications
\* Any calls, any values, on small trees.
BTInsert ==
  \E k \in Keys, v \in Vals : Size(bt) < MaxSize /\ BTInsertCall(k, v)

BTDelete == \E k \in Keys : BTDeleteCall(k)

BTNext == BTInsert \/ BTDelete

BTInit == (\E d \in DegreeArgs : BTStart(d)) /\ BPStart(2) /\ RTStart(1, 2) /\ NoReaders

SpecBT == BTInit /\ [][BTNext]_vars

\* Any calls on trees large enough to reach height 2; the value inserted
\* with a key is fixed by the key, and btLast records of a call only which
\* it was, what it returned and the height before it.
BTInsertDeep ==
  \E k \in DeepKeys :
    /\ Size(bt) < MaxSizeDeep
    /\ bt' = Insert(bt, k, ValOf(k))
    /\ btRef' = [btRef EXCEPT ![k] = ValOf(k)]
    /\ btFresh' = (btFresh /\ btRef[k] = ZeroV)
    /\ btLast' = [NoOp EXCEPT !.op = "Insert", !.height = Height(bt)]
    /\ UNCHANGED btRound
    /\ UNCHANGED <<bpVars, rtVars, rd>>

BTDeleteDeep ==
  \E k \in DeepKeys :
    LET r == Delete(bt, k)
    IN /\ bt' = r.tree
       /\ btRef' = [btRef EXCEPT ![k] = ZeroV]
       /\ btFresh' = btFresh
       /\ btLast' = [NoOp EXCEPT !.op = "Delete", !.ret = r.ok,
                                 !.height = Height(bt)]
       /\ UNCHANGED btRound
       /\ UNCHANGED <<bpVars, rtVars, rd>>

BTNextDeep == BTInsertDeep \/ BTDeleteDeep

BTInitDeep == (\E d \in DegreeArgs : BTStart(d)) /\ BPStart(2) /\ RTStart(1, 2) /\ NoReaders

SpecBTDeep == BTInitDeep /\ [][BTNextDeep]_vars

\* Insert is only called with keys that are not present.
BTInsertFresh ==
  \E k \in FreshKeys : btRef[k] = ZeroV /\ BTInsertCall(k, ValOf(k))

BTDeleteFresh == \E k \in FreshKeys : BTDeleteCall(k)

BTNextFresh == BTInsertFresh \/ BTDeleteFresh

BTInitFresh == (\E d \in DegreeArgs : BTStart(d)) /\ BPStart(2) /\ RTStart(1, 2) /\ NoReaders

SpecBTFresh == BTInitFresh /\ [][BTNextFresh]_vars

\* Calls with distinct keys on a tree of degree 2, enough of them to give a
\* node below the root exactly t keys over children of t-1 keys each;
\* btLast records of a call only which it was and its key.
BTInsertDescent ==
  \E k \in DescentKeys :
    /\ btRef[k] = ZeroV
    /\ bt' = Insert(bt, k, ValOf(k))
    /\ btRef' = [btRef EXCEPT ![k] = ValOf(k)]
    /\ btLast' = [NoOp EXCEPT !.op = "Insert", !.key = k]
    /\ UNCHANGED <<btFresh, btRound>>
    /\ UNCHANGED <<bpVars, rtVars, rd>>

BTDeleteDescent ==
  \E k \in DescentKeys :
    /\ bt' = Delete(bt, k).tree
    /\ btRef' = [btRef EXCEPT ![k] = ZeroV]
    /\ btLast' = [NoOp EXCEPT !.op = "Delete", !.key = k]
    /\ UNCHANGED <<btFresh, btRound>>
    /\ UNCHANGED <<bpVars, rtVars, rd>>

BTNextDescent == BTInsertDescent \/ BTDeleteDescent

BTInitDescent == BTStart(2) /\ BPStart(2) /\ RTStart(1, 2) /\ NoReaders

SpecBTDescent == BTInitDescent /\ [][BTNextDescent]_vars

\* A round trip: distinct keys are inserted in any order, and from the first
\* Delete on the stored keys are deleted in any order; btLast records of a
\* call only which it was, what it returned and the height before it.
BTInsertRound ==
  \E k \in FreshKeys :
    /\ ~btRound.deleting
    /\ btRef[k] = ZeroV
    /\ bt' = Insert(bt, k, ValOf(k))
    /\ btRef' = [btRef EXCEPT ![k] = ValOf(k)]
    /\ btFresh' = btFresh
    /\ btLast' = [NoOp EXCEPT !.op = "Insert", !.height = Height(bt)]
    /\ UNCHANGED btRound
    /\ UNCHANGED <<bpVars, rtVars, rd>>

BTDeleteRound ==
  \E k \in FreshKeys :
    LET r == Delete(bt, k)
    IN /\ btRef[k] # ZeroV
       /\ bt' = r.tree
       /\ btRef' = [btRef EXCEPT ![k] = ZeroV]
       /\ btFresh' = btFresh
       /\ btLast' = [NoOp EXCEPT !.op = "Delete", !.ret = r.ok,
                                 !.height = Height(bt)]
       /\ btRound' = [deleting |-> TRUE,
                      peak |-> IF btRound.deleting THEN btRound.peak
                               ELSE Height(bt)]
       /\ UNCHANGED <<bpVars, rtVars, rd>>

BTNextRound == BTInsertRound \/ BTDeleteRound

BTInitRound == (\E d \in DegreeArgs : BTStart(d)) /\ BPStart(2) /\ RTStart(1, 2) /\ NoReaders

SpecBTRound == BTInitRound /\ [][BTNextRound]_vars


BPNext == BPInsertAct \/ BPDeleteAct

BPInit == (\E d \in DegreeArgs : BPStart(d)) /\ BTStart(2) /\ RTStart(1, 2) /\ NoReaders

SpecBP == BPInit /\ [][BPNext]_vars

\* The B+ tree under the same calls, for what the readers return between them.
BPNextRead == BPInsertPlain \/ BPDeletePlain

SpecBPRead == BPInit /\ [][BPNextRead]_vars


\* Both trees built with one degree below 2, then calls with distinct keys on
\* either tree.
BTInsertClamp ==
  \E k \in ClampKeys :
    /\ btRef[k] = ZeroV
    /\ bt' = Insert(bt, k, ValOf(k))
    /\ btRef' = [btRef EXCEPT ![k] = ValOf(k)]
    /\ UNCHANGED <<btFresh, btLast, btRound>>
    /\ UNCHANGED <<bpVars, rtVars, rd>>

BTDeleteClamp ==
  \E k \in ClampKeys :
    /\ bt' = Delete(bt, k).tree
    /\ btRef' = [btRef EXCEPT ![k] = ZeroV]
    /\ UNCHANGED <<btFresh, btLast, btRound>>
    /\ UNCHANGED <<bpVars, rtVars, rd>>

BPInsertClamp ==
  \E k \in ClampKeys :
    /\ bp' = Collect(BPInsert(bp, k, ValOf(k)))
    /\ bpRef' = [bpRef EXCEPT ![k] = ValOf(k)]
    /\ UNCHANGED bpLast
    /\ UNCHANGED <<btVars, rtVars, rd>>

BPDeleteClamp ==
  \E k \in ClampKeys :
    /\ bp' = Collect(BPDelete(bp, k).tree)
    /\ bpRef' = [bpRef EXCEPT ![k] = ZeroV]
    /\ UNCHANGED bpLast
    /\ UNCHANGED <<btVars, rtVars, rd>>

ClampNext == BTInsertClamp \/ BTDeleteClamp \/ BPInsertClamp \/ BPDeleteClamp

ClampInit ==
  (\E d \in LowDegreeArgs : BTStart(d) /\ BPStart(d)) /\ RTStart(1, 2) /\ NoReaders

SpecClamp == ClampInit /\ [][ClampNext]_vars

\* RTree: NewRTree, then Insert calls.
RTNext == RTInsertCall

RTInit == (\E a \in RTArgs : RTStart(a[1], a[2])) /\ BTStart(2) /\ BPStart(2) /\ NoReaders

SpecRT == RTInit /\ [][RTNext]_vars

\* RTree built with any arguments, then Insert calls.  With minEntries < 1
\* every split panics: chooseSplitAxis sorts the entries by MinX and calls
\* calculateMarginSum, whose loop starts at index minEntries < 0 or runs up
\* to index count, and node.items[i] is then out of range.
RTInsertPanics(T, item) ==
  /\ T.minEntries < 1
  /\ Len(T.heap[chooseLeaf(T, T.root, item.Bounds)].items) + 1 > T.maxEntries

\* The tree at the panic: size counted, the item appended to the leaf, the
\* bounds updated and the leaf's items sorted by MinX.
RTInsertPanicked(T, item) ==
  LET leaf == chooseLeaf(T, T.root, item.Bounds)
  IN SortEntries(
       updateBounds([T EXCEPT !.size = @ + 1,
                              !.heap[leaf].items = Append(@, item)], leaf),
       leaf, 0)

RTInsertAny ==
  \E i \in ItemIds :
    /\ ~rtPanic
    /\ RTSize(rt) < MaxArgItems
    /\ rtPanic' = RTInsertPanics(rt, ItemOf(i))
    /\ rt' = IF RTInsertPanics(rt, ItemOf(i))
             THEN RTInsertPanicked(rt, ItemOf(i))
             ELSE RTInsert(rt, ItemOf(i))
    /\ rtItems' = [rtItems EXCEPT ![i] = @ + 1]
    /\ UNCHANGED <<btVars, bpVars, rd>>

RTNextAny == RTInsertAny

RTInitAny ==
  (\E a \in RTAnyArgs : RTStart(a[1], a[2])) /\ BTStart(2) /\ BPStart(2) /\ NoReaders

SpecRTAny == RTInitAny /\ [][RTNextAny]_vars

\* RTree, the nearest-neighbour runs: NewRTree, then Insert calls.  With
\* MaxNearItems items only these arguments let a node overflow.
RTNearArgs == {<<0, 2>>, <<1, 3>>}
RTInsertNear ==
  \E i \in ItemIds :
    /\ RTSize(rt) < MaxNearItems
    /\ rt' = RTInsert(rt, ItemOf(i))
    /\ rtItems' = [rtItems EXCEPT ![i] = @ + 1]
    /\ UNCHANGED rtPanic
    /\ UNCHANGED <<btVars, bpVars, rd>>

RTNextNear == RTInsertNear

RTInitNear ==
  (\E a \in RTNearArgs : RTStart(a[1], a[2])) /\ BTStart(2) /\ BPStart(2) /\ NoReaders

SpecRTNear == RTInitNear /\ [][RTNextNear]_vars


\* RTree, the runs on which the steps of a split are examined: NewRTree,
\* then Insert calls up to MaxSplitItems items.  Four items split leaves of
\* capacity 2 and 3 and the internal root of a tree of capacity 2.
RTInsertSplit ==
  \E i \in ItemIds :
    /\ RTSize(rt) < MaxSplitItems
    /\ rt' = RTInsert(rt, ItemOf(i))
    /\ rtItems' = [rtItems EXCEPT ![i] = @ + 1]
    /\ UNCHANGED rtPanic
    /\ UNCHANGED <<btVars, bpVars, rd>>

RTNextSplit == RTInsertSplit

RTInitSplit ==
  (\E a \in RTArgs : RTStart(a[1], a[2])) /\ BTStart(2) /\ BPStart(2) /\ NoReaders

SpecRTSplit == RTInitSplit /\ [][RTNextSplit]_vars

\* Readers only: the trees are built first, then two readers call queries
\* in any interleaving, with no writer.
ReadNext == \E r \in Readers : ReaderCall(r) \/ ReaderReturn(r)

ReadInit ==
  \E n \in 0..MaxReadSize :
    /\ bt = BuiltBT(n) /\ bp = BuiltBP(n) /\ rt = BuiltRT(n)
    /\ btRef = [k \in AllKeys |-> IF k <= n THEN ValOf(k) ELSE ZeroV]
    /\ bpRef = [k \in BPKeys |-> IF k <= n THEN ValOf(k) ELSE ZeroV]
    /\ rtItems = [i \in ItemIds |-> IF i <= n THEN 1 ELSE 0]
    /\ btFresh = TRUE /\ btLast = NoOp
    /\ btRound = [deleting |-> FALSE, peak |-> 0]
    /\ bpLast = [op |-> "New", ret |-> FALSE, present |-> FALSE, height |-> 0]
    /\ rtPanic = FALSE
    /\ rd = [n |-> n, at |-> [r \in Readers |-> Idle]]

SpecReaders == ReadInit /\ [][ReadNext]_vars

\* ================================================================ claims
\* The entries of a reference map within [lo, hi], in ascending key order.
RECURSIVE RefEntries(_, _, _)
RefEntries(ref, lo, hi) ==
  IF lo > hi THEN <<>>
  ELSE (IF lo \in DOMAIN ref /\ ref[lo] # ZeroV
        THEN <<[Key |-> lo, Value |-> ref[lo]]>>
        ELSE <<>>) \o RefEntries(ref, lo + 1, hi)

RefSize(ref) == Cardinality({k \in DOMAIN ref : ref[k] # ZeroV})

\* The keys of a sequence of entries are strictly ascending.
Ascending(es) == \A i \in 1..(Len(es) - 1) : es[i].Key < es[i + 1].Key

\* The keys of a sequence of keys are strictly ascending.
AscendingKeys(ks) == \A i \in 1..(Len(ks) - 1) : ks[i] < ks[i + 1]

\* ------------------------------------------------------------- BTree
\* The node-size bounds of the subtree of node, in a tree of degree t.
RECURSIVE NodeSizesOK(_, _, _)
NodeSizesOK(t, node, isRoot) ==
  /\ Len(node.keys) <= 2 * t - 1
  /\ isRoot \/ Len(node.keys) >= t - 1
  /\ Len(node.values) = Len(node.keys)
  /\ ~node.isLeaf =>
       /\ Len(node.children) = Len(node.keys) + 1
       /\ \A i \in 1..Len(node.children) :
            NodeSizesOK(t, node.children[i], FALSE)

\* The depths of the leaves of the subtree of node, itself at depth d.
RECURSIVE LeafDepths(_, _)
LeafDepths(node, d) ==
  IF node.isLeaf THEN {d}
  ELSE UNION {LeafDepths(node.children[i], d + 1) : i \in 1..Len(node.children)}

\* C1: an Insert of a key the tree already holds leaves Size() as it was,
\* and Search of the key then returns the inserted value.
C1_Overwrite ==
  (btLast.op = "Insert" /\ btLast.present) =>
    /\ Size(bt) = btLast.size
    /\ Search(bt, btLast.key) = [val |-> btLast.val, found |-> TRUE]

\* C3: while Insert is only called with absent keys, the B-tree agrees with
\* the reference map: Size is the map's size, Search returns the map's value
\* and found for a key of the map and (zero, false) for any other key, and
\* Delete returns true exactly when the map held the key.
C3_MapRefinement ==
  btFresh =>
    /\ Size(bt) = RefSize(btRef)
    /\ \A k \in AllKeys :
         Search(bt, k) = [val |-> btRef[k], found |-> btRef[k] # ZeroV]
    /\ btLast.op = "Delete" => btLast.ret = btLast.inRef

\* A Delete that returned true on a tree of height 2.
C3_Witness ==
  /\ btFresh
  /\ btLast.op = "Delete" /\ btLast.ret /\ btLast.height = 2
  /\ Size(bt) >= 7

\* C4: after every Insert and Delete, InOrderTraversal() has strictly
\* ascending keys and as many entries as Size().
C4_Sorted ==
  /\ Ascending(InOrderTraversal(bt))
  /\ Len(InOrderTraversal(bt)) = Size(bt)

\* C5: after every Insert and Delete every node holds at most 2t-1 keys,
\* every non-root node at least t-1, every node as many values as keys and
\* every non-leaf node one child more than keys.
C5_NodeSizes == NodeSizesOK(bt.degree, bt.root, TRUE)

\* A Delete on a tree of height 2 that removed an entry and shrank the tree
\* to height 1.
C5_Witness ==
  /\ btLast.op = "Delete" /\ btLast.ret
  /\ btLast.height = 2 /\ Height(bt) = 1

\* C6: after every Insert and Delete all leaves are at the depth Height().
C6_Balanced == LeafDepths(bt.root, 0) = {Height(bt)}

\* An Insert that split the root of a tree of height 1.
C6_Witness ==
  /\ btLast.op = "Insert" /\ btLast.height = 1 /\ Height(bt) = 2

\* C11: a Delete of a key the tree does not hold returns false and leaves
\* the tree as it was: the same root, and in every node the same keys, values
\* and children.
C11_AbsentDelete ==
  [][(btLast'.op = "Delete" /\ ~btLast'.present)
       => (~btLast'.ret /\ bt' = bt)]_vars

\* C12: after a Delete that returned true, a second Delete of the same key
\* returns false and Search of the key reports not found.
C12_IdempotentDelete ==
  (btLast.op = "Delete" /\ btLast.ret) =>
    /\ ~Delete(bt, btLast.key).ok
    /\ ~Search(bt, btLast.key).found

\* C13: in a round trip every Delete returns true, and once every inserted
\* key is deleted the tree is empty: IsEmpty() is true, Size() and Height()
\* are 0 and the root is a leaf with no keys.
C13_RoundTrip ==
  /\ btLast.op = "Delete" => btLast.ret
  /\ (btRound.deleting /\ RefSize(btRef) = 0) =>
       /\ IsEmpty(bt)
       /\ Size(bt) = 0
       /\ Height(bt) = 0
       /\ bt.root.isLeaf /\ Len(bt.root.keys) = 0

\* A round trip that filled the tree to height 2 and has emptied it.
C13_Witness ==
  /\ btRound.deleting /\ btRound.peak = 2
  /\ btLast.op = "Delete" /\ btLast.ret
  /\ RefSize(btRef) = 0

\* --------------------------------------------------------- BPlusTree
\* C2: the B+ tree agrees with the reference map driven by the same Insert
\* and Delete calls: Len is the map's size, Search returns the map's value
\* and found for a key of the map and not found for any other key, Delete
\* returns true exactly when the map held the key, and All() is the map's
\* entries in ascending key order.
C2_MapRefinement ==
  /\ BPLen(bp) = RefSize(bpRef)
  /\ \A k \in BPKeys :
       /\ BPSearch(bp, k).found = (bpRef[k] # ZeroV)
       /\ bpRef[k] # ZeroV => BPSearch(bp, k).val = bpRef[k]
  /\ bpLast.op = "Delete" => bpLast.ret = bpLast.present
  /\ ChainEnds(bp)
  /\ All(bp) = RefEntries(bpRef, 1, MaxKeyBP)

\* An Insert of a stored key into a tree of height 2 that now holds for the
\* first key a value other than the one of its first insertion.
C2_Witness ==
  /\ bpLast.op = "Insert" /\ bpLast.present
  /\ bpRef[1] # ZeroV /\ bpRef[1] # ValOf(1)
  /\ BPHeight(bp) = 2

\* C7: every leaf has at most 2t-1 entries and every non-root leaf at least
\* t-1; every internal node has at most 2t-1 keys, every non-root internal
\* node at least t-1, and one child more than keys; the keys of every node
\* are strictly increasing; every child's parent link is the node that lists
\* it.
C7_Structure ==
  \A n \in TreeNodes(bp) :
    LET N == bp.heap[n]
    IN IF N.isLeaf
       THEN /\ Len(N.entries) <= maxLeafEntries(bp)
            /\ n # bp.root => Len(N.entries) >= minLeafEntries(bp)
            /\ Ascending(N.entries)
       ELSE /\ Len(N.keys) <= maxInternalKeys(bp)
            /\ n # bp.root => Len(N.keys) >= minInternalKeys(bp)
            /\ Len(N.children) = Len(N.keys) + 1
            /\ AscendingKeys(N.keys)
            /\ \A i \in 1..Len(N.children) :
                 bp.heap[N.children[i]].parent = n

\* A Delete that merged nodes of a tree of height 2 down to height 1.
C7_Witness ==
  /\ bpLast.op = "Delete" /\ bpLast.ret
  /\ bpLast.height = 2 /\ BPHeight(bp) = 1

\* C8: for every internal node and every i, the keys below children[i] are
\* less than keys[i] and the keys below children[i+1] are at least keys[i];
\* and findLeaf(k) is the leaf that holds k, for every stored key k.
C8_Routing ==
  /\ \A n \in TreeNodes(bp) :
       LET N == bp.heap[n]
       IN ~N.isLeaf =>
            \A i \in 1..Len(N.keys) :
              /\ \A k \in SubtreeKeys(bp, N.children[i]) : k < N.keys[i]
              /\ \A k \in SubtreeKeys(bp, N.children[i + 1]) : k >= N.keys[i]
  /\ \A n \in TreeLeaves(bp) :
       \A k \in SubtreeKeys(bp, n) : findLeaf(bp, k) = n

\* A tree of height 2 after a Delete, in which a separator of an internal
\* node is a key that is no longer stored.
C8_Witness ==
  /\ bpLast.op = "Delete" /\ bpLast.ret
  /\ BPHeight(bp) = 2
  /\ \E n \in TreeNodes(bp) :
       /\ ~bp.heap[n].isLeaf
       /\ \E i \in 1..Len(bp.heap[n].keys) :
            bpRef[bp.heap[n].keys[i]] = ZeroV

\* C9: the walk along next from the leftmost leaf ends at nil, visits every
\* leaf of the tree exactly once and no other node, and yields every stored
\* entry once, with strictly ascending keys.
C9_LeafChain ==
  LET chain == LeafChain(bp)
  IN /\ ChainEnds(bp)
     /\ \A i, j \in 1..Len(chain) : chain[i] = chain[j] => i = j
     /\ {chain[i] : i \in 1..Len(chain)} = TreeLeaves(bp)
     /\ Ascending(All(bp))
     /\ Len(All(bp)) = RefSize(bpRef)
     /\ {All(bp)[i].Key : i \in 1..Len(All(bp))}
          = {k \in BPKeys : bpRef[k] # ZeroV}

\* A Delete that merged leaves, so that the height fell from 2 to 1, and
\* left a chain of at least three leaves.
C9_Witness ==
  /\ bpLast.op = "Delete" /\ bpLast.ret
  /\ bpLast.height = 2 /\ BPHeight(bp) = 1
  /\ Len(LeafChain(bp)) >= 3

\* C10: for lo <= hi, Range(lo, hi) ends and returns exactly the stored
\* entries with lo <= key <= hi, once each, in ascending key order, whether
\* or not lo and hi are stored keys.
C10_Range ==
  \A lo \in 0..(MaxKeyBP + 1) : \A hi \in lo..(MaxKeyBP + 1) :
    LET r == Range(bp, lo, hi)
    IN r.done /\ r.res = RefEntries(bpRef, lo, hi)

\* A tree of several leaves in which a range between two absent keys holds
\* entries of more than one leaf, and a degenerate range holds one entry.
C10_Witness ==
  /\ Len(LeafChain(bp)) >= 3
  /\ \E lo \in BPKeys : \E hi \in BPKeys :
       /\ lo < hi /\ bpRef[lo] = ZeroV /\ bpRef[hi] = ZeroV
       /\ Len(Range(bp, lo, hi).res) >= 3
  /\ \E k \in BPKeys : Len(Range(bp, k, k).res) = 1

\* Tree T2 is tree T with the value stored for key k replaced by v: the same
\* root and nodes, in every node the same keys, children, next and parent
\* links and the same entries but for the value of k.
OnlyValueChanged(T, T2, k, v) ==
  /\ T2.root = T.root /\ T2.degree = T.degree
  /\ Len(T2.heap) = Len(T.heap)
  /\ \A n \in 1..Len(T.heap) :
       LET a == T.heap[n]
           b == T2.heap[n]
       IN /\ b.isLeaf = a.isLeaf
          /\ b.keys = a.keys /\ b.children = a.children
          /\ b.next = a.next /\ b.parent = a.parent
          /\ Len(b.entries) = Len(a.entries)
          /\ \A i \in 1..Len(a.entries) :
               /\ b.entries[i].Key = a.entries[i].Key
               /\ b.entries[i].Value = IF a.entries[i].Key = k THEN v
                                       ELSE a.entries[i].Value

\* C14: an Insert of a key the tree holds changes only the value stored for
\* the key: Len(), every node's keys, children, next and parent links and
\* every other entry stay as they were, and Search of the key then returns
\* the inserted value.
C14_OverwriteFrame ==
  [][(bpLast'.op = "Insert" /\ bpLast'.present) =>
       \E k \in BPKeys :
         /\ bpRef[k] # ZeroV
         /\ bpRef' = [bpRef EXCEPT ![k] = bpRef'[k]]
         /\ OnlyValueChanged(bp, bp', k, bpRef'[k])
         /\ BPLen(bp') = BPLen(bp)
         /\ BPSearch(bp', k) = [val |-> bpRef'[k], found |-> TRUE]]_vars

\* An Insert of a stored key into a tree of height 2, after which Search
\* returns for the first key the second of its values.
C14_Witness ==
  /\ bpLast.op = "Insert" /\ bpLast.present
  /\ bpLast.height = 2 /\ BPHeight(bp) = 2
  /\ BPSearch(bp, 1) = [val |-> ValOf(2), found |-> TRUE]

\* C15: Len() is 0 exactly when root is nil, no leaf of the tree is empty,
\* and once every inserted key is deleted root is nil.
C15_Emptiness ==
  /\ (BPLen(bp) = 0) <=> (bp.root = Nil)
  /\ \A n \in TreeLeaves(bp) : Len(bp.heap[n].entries) >= 1
  /\ RefSize(bpRef) = 0 => bp.root = Nil

\* A Delete that removed the last entry of the tree.
C15_Witness ==
  /\ bpLast.op = "Delete" /\ bpLast.ret
  /\ RefSize(bpRef) = 0 /\ bp.root = Nil

\* C16: all leaves of the tree are at the same depth, internal nodes hold no
\* entries and leaves hold no children.
C16_Balanced ==
  /\ bp.root # Nil => Cardinality(BPLeafDepths(bp, bp.root, 0)) = 1
  /\ \A n \in TreeNodes(bp) :
       /\ bp.heap[n].isLeaf => Len(bp.heap[n].children) = 0
       /\ ~bp.heap[n].isLeaf => Len(bp.heap[n].entries) = 0

\* An Insert that split the root of a tree of height 1.
C16_Witness ==
  /\ bpLast.op = "Insert" /\ ~bpLast.present
  /\ bpLast.height = 1 /\ BPHeight(bp) = 2

\* ---- RTree
\* The windows and points of the queries.
Coords == 0..MaxCoord
Windows ==
  {NewRectangle(x1, y1, x2, y2) : x1 \in Coords, y1 \in Coords,
                                  x2 \in Coords, y2 \in Coords}
   \ {w \in [MinX : Coords, MinY : Coords, MaxX : Coords, MaxY : Coords] :
         w.MinX > w.MaxX \/ w.MinY > w.MaxY}
Points == [X : Coords, Y : Coords]
\* The number of positions of a sequence that hold x.
Count(seq, x) == Cardinality({j \in 1..Len(seq) : seq[j] = x})
\* Two closed rectangles share a point: neither lies wholly to one side of
\* the other.
Overlaps(a, b) ==
  ~(a.MaxX < b.MinX \/ b.MaxX < a.MinX \/ a.MaxY < b.MinY \/ b.MaxY < a.MinY)

\* C17: for every window W, Search(W) holds every item whose closed
\* rectangle shares a point with W once for each time it was inserted, and
\* holds nothing else.
C17_WindowSearch ==
  \A W \in Windows :
    LET res == RTSearch(rt, W)
    IN /\ \A i \in ItemIds :
            Count(res, ItemOf(i)) =
              IF Overlaps(ItemRects[i], W) THEN rtItems[i] ELSE 0
       /\ \A j \in 1..Len(res) : \E i \in ItemIds : res[j] = ItemOf(i)

\* A tree of height 3 searched with the window that is the single point
\* (1, 1): item 1 touches it only in its corner and is found, item 3 is in
\* the tree and is not.
C17_Witness ==
  LET res == RTSearch(rt, NewRectangle(1, 1, 1, 1))
  IN /\ RTHeight(rt) = 3
     /\ rtItems[1] = 1 /\ rtItems[3] = 1
     /\ Count(res, ItemOf(1)) = 1 /\ Count(res, ItemOf(3)) = 0

\* A point lies in a closed rectangle: each coordinate lies in the
\* rectangle's interval on its axis, ends included.
Inside(r, p) == p.X \in r.MinX..r.MaxX /\ p.Y \in r.MinY..r.MaxY

\* C18: for every point p, SearchPoint(p) holds every item whose closed
\* rectangle contains p once for each time it was inserted, and holds
\* nothing else.
C18_PointSearch ==
  \A p \in Points :
    LET res == SearchPoint(rt, p)
    IN /\ \A i \in ItemIds :
            Count(res, ItemOf(i)) =
              IF Inside(ItemRects[i], p) THEN rtItems[i] ELSE 0
       /\ \A j \in 1..Len(res) : \E i \in ItemIds : res[j] = ItemOf(i)

\* A tree of height 3 searched at the point (3, 3), which is the upper
\* right corner of item 4 and all of item 5: both are found, and item 1,
\* which is in the tree, is not.
C18_Witness ==
  LET res == SearchPoint(rt, [X |-> 3, Y |-> 3])
  IN /\ RTHeight(rt) = 3
     /\ rtItems[1] = 1 /\ rtItems[4] = 1 /\ rtItems[5] = 1
     /\ Count(res, ItemOf(4)) = 1 /\ Count(res, ItemOf(5)) = 1
     /\ Count(res, ItemOf(1)) = 0

\* The numbers of neighbours asked for.
NeighbourCounts == (0 - 1)..(MaxNearItems + 1)
\* The square of the least distance between the point p and a point of the
\* closed rectangle r; the nearest point of r has integer coordinates.
PointGaps(r, p) ==
  {(x - p.X) * (x - p.X) + (y - p.Y) * (y - p.Y) :
     x \in r.MinX..r.MaxX, y \in r.MinY..r.MaxY}
ItemDist ==
  [i \in ItemIds |->
    [p \in Points |->
      CHOOSE d \in PointGaps(ItemRects[i], p) :
        \A e \in PointGaps(ItemRects[i], p) : d <= e]]

\* C19: NearestNeighbor(p, k) returns min(k, Size()) items, none when
\* k <= 0 or the tree is empty, no item more often than it was inserted,
\* and each result is at least as far from p as the result before it.
C19_NearestOrder ==
  \A p \in Points : \A k \in NeighbourCounts :
    LET res == NearestNeighbor(rt, p, k)
    IN /\ Len(res) = IF k <= 0 THEN 0 ELSE Min(k, RTSize(rt))
       /\ RTSize(rt) = 0 => Len(res) = 0
       /\ \A j \in 1..Len(res) : \E i \in ItemIds : res[j] = ItemOf(i)
       /\ \A i \in ItemIds : Count(res, ItemOf(i)) <= rtItems[i]
       /\ \A j \in 1..(Len(res) - 1) :
            ItemDist[res[j].Data][p] <= ItemDist[res[j + 1].Data][p]

\* A tree of height 3 that holds item 2 twice, asked for three neighbours
\* of the point (0, 3): item 4 at distance 0, then item 2 twice.
C19_Witness ==
  LET res == NearestNeighbor(rt, [X |-> 0, Y |-> 3], 3)
  IN /\ RTHeight(rt) = 3 /\ RTSize(rt) = 4
     /\ rtItems[2] = 2 /\ rtItems[4] = 1
     /\ res = <<ItemOf(4), ItemOf(2), ItemOf(2)>>

\* The square of the least distance between p and a point of a rectangle.
Gap(r, p) ==
  CHOOSE d \in PointGaps(r, p) : \A e \in PointGaps(r, p) : d <= e
\* The values of [queue, result] before each pass of the loop of
\* NearestNeighbor(p, k) from S on, and after the last pass.
RECURSIVE nnTrace(_, _, _, _)
nnTrace(T, p, k, S) ==
  IF ~nnContinues(k, S) THEN <<S>>
  ELSE <<S>> \o nnTrace(T, p, k, nnStep(T, p, S))

\* C20: for k >= 1, every item with an insertion that NearestNeighbor(p, k)
\* did not return is at least as far from p as every returned item, and no
\* pass of the loop emits an item while a node with bounds strictly nearer
\* to p than the item is in the queue.  The passes are those of the call
\* with k = MaxNearItems + 1, which runs until the queue is empty; the
\* passes of a call with a smaller k are the first of them.
C20_TrueNearest ==
  \A p \in Points :
    /\ \A k \in 1..(MaxNearItems + 1) :
         LET res == NearestNeighbor(rt, p, k)
         IN \A i \in ItemIds :
              Count(res, ItemOf(i)) < rtItems[i] =>
                \A j \in 1..Len(res) :
                  ItemDist[i][p] >= ItemDist[res[j].Data][p]
    /\ LET tr == nnTrace(rt, p, MaxNearItems + 1, nnStart(rt, p))
       IN /\ tr[Len(tr)].result = NearestNeighbor(rt, p, MaxNearItems + 1)
          /\ \A n \in 1..(Len(tr) - 1) :
               Len(tr[n + 1].result) > Len(tr[n].result) =>
                 \A q \in 1..Len(tr[n].queue) :
                   tr[n].queue[q].item = NilItem =>
                     Gap(rt.heap[tr[n].queue[q].node].bounds, p)
                       >= ItemDist[tr[n + 1].result[Len(tr[n + 1].result)].Data][p]

\* A tree of height 3 with four items asked for the two nearest neighbours
\* of the point (3, 0): item 3 at distance 0 and then item 2 are returned,
\* and item 5, strictly farther, is left out.
C20_Witness ==
  /\ RTHeight(rt) = 3 /\ RTSize(rt) = 4
  /\ rtItems[2] = 1 /\ rtItems[3] = 1 /\ rtItems[5] >= 1
  /\ NearestNeighbor(rt, [X |-> 3, Y |-> 0], 2) = <<ItemOf(3), ItemOf(2)>>

\* The nodes of the subtree of n, and the nodes of the tree.
RECURSIVE RTSubtree(_, _)
RTSubtree(T, n) ==
  {n} \cup UNION {RTSubtree(T, T.heap[n].children[c]) :
                    c \in 1..Len(T.heap[n].children)}
RTNodes(T) == RTSubtree(T, T.root)
\* The rectangles of the entries of a node.
EntryRects(T, n) ==
  IF T.heap[n].isLeaf
  THEN {T.heap[n].items[j].Bounds : j \in 1..Len(T.heap[n].items)}
  ELSE {T.heap[T.heap[n].children[c]].bounds :
          c \in 1..Len(T.heap[n].children)}
\* The least and the greatest number of a nonempty set.
Least(S) == CHOOSE x \in S : \A y \in S : x <= y
Greatest(S) == CHOOSE x \in S : \A y \in S : x >= y
\* The minimum bounding rectangle of a nonempty set of rectangles.
MBR(R) ==
  [MinX |-> Least({r.MinX : r \in R}), MinY |-> Least({r.MinY : r \in R}),
   MaxX |-> Greatest({r.MaxX : r \in R}),
   MaxY |-> Greatest({r.MaxY : r \in R})]

\* C21: the bounds of every node of the tree that has an entry are the
\* minimum bounding rectangle of its entries.
C21_ParentMBR ==
  \A n \in RTNodes(rt) :
    EntryRects(rt, n) # {} => rt.heap[n].bounds = MBR(EntryRects(rt, n))

\* A tree of height 3 whose root bounds are the whole grid and one of whose
\* leaves is bounded by the point item 5 alone.
C21_Witness ==
  /\ RTHeight(rt) = 3
  /\ rt.heap[rt.root].bounds = NewRectangle(0, 0, 3, 3)
  /\ \E n \in RTNodes(rt) :
       rt.heap[n].isLeaf /\ rt.heap[n].bounds = NewRectangle(3, 3, 3, 3)

\* The number of entries of a node.
EntryCount(T, n) ==
  IF T.heap[n].isLeaf THEN Len(T.heap[n].items) ELSE Len(T.heap[n].children)

\* C22: in a tree with 1 <= minEntries <= maxEntries / 2 every node holds
\* at most maxEntries entries and every node but the root at least
\* minEntries; the two nodes a split leaves are never the root, so each of
\* them holds at least minEntries entries.
C22_Capacity ==
  (1 <= rt.minEntries /\ rt.minEntries <= rt.maxEntries \div 2) =>
    \A n \in RTNodes(rt) :
      /\ EntryCount(rt, n) <= rt.maxEntries
      /\ n # rt.root => EntryCount(rt, n) >= rt.minEntries

\* NewRTree(2, 4) after the fifth Insert: the root leaf held five items and
\* was split into two leaves under a new root.
C22_Witness ==
  /\ rt.minEntries = 2 /\ rt.maxEntries = 4
  /\ RTSize(rt) = 5 /\ RTHeight(rt) = 2
  /\ ~rt.heap[rt.root].isLeaf /\ Len(rt.heap[rt.root].children) = 2

\* The depths of the leaves of the subtree of n, which is at depth d.
RECURSIVE RTLeafDepths(_, _, _)
RTLeafDepths(T, n, d) ==
  IF T.heap[n].isLeaf THEN {d}
  ELSE UNION {RTLeafDepths(T, T.heap[n].children[c], d + 1) :
                c \in 1..Len(T.heap[n].children)}
\* All leaves are at one depth, Height() is the number of levels, and it is
\* 1 when the root is a leaf.
RTLevel(T) ==
  /\ RTLeafDepths(T, T.root, 0) = {RTHeight(T) - 1}
  /\ T.heap[T.root].isLeaf => RTHeight(T) = 1

\* C23: in every state all leaves are at the same depth and Height() is 1
\* when the root is a leaf; an Insert that splits the root puts the old root
\* and its new sibling under a new internal root and raises Height() by
\* one, and every other Insert leaves the root and Height() as they were.
C23_Height ==
  /\ RTLevel(rt)
  /\ [][rt' # rt =>
          /\ RTLevel(rt')
          /\ rt'.root # rt.root =>
               /\ RTHeight(rt') = RTHeight(rt) + 1
               /\ ~rt'.heap[rt'.root].isLeaf
               /\ Len(rt'.heap[rt'.root].children) = 2
               /\ rt'.heap[rt'.root].children[1] = rt.root
               /\ rt'.heap[rt'.root].children[2] > Len(rt.heap)
               /\ rt'.heap[rt'.root].children[2] # rt'.root
          /\ rt'.root = rt.root => RTHeight(rt') = RTHeight(rt)]_vars

\* A tree of height 3 with four items: it had height 2 with three, so the
\* fourth Insert split a leaf and then the root.
C23_Witness == RTHeight(rt) = 3 /\ RTSize(rt) = 4

\* The items in the leaves of the subtree of n, leaf by leaf from the left.
RECURSIVE RTLeafItems(_, _)
RECURSIVE RTLeafItemsOf(_, _, _)
RTLeafItems(T, n) ==
  IF T.heap[n].isLeaf THEN T.heap[n].items
  ELSE RTLeafItemsOf(T, T.heap[n].children, 1)
RTLeafItemsOf(T, children, c) ==
  IF c > Len(children) THEN <<>>
  ELSE RTLeafItems(T, children[c]) \o RTLeafItemsOf(T, children, c + 1)
\* The number of Insert calls so far.
RECURSIVE Inserted(_, _)
Inserted(items, i) ==
  IF i > Len(ItemRects) THEN 0 ELSE items[i] + Inserted(items, i + 1)

\* C24: Size() is the number of Insert calls and the number of item slots
\* of the leaves of the tree, and the leaves hold every item once for each
\* time it was inserted.
C24_SizeConservation ==
  LET slots == RTLeafItems(rt, rt.root)
  IN /\ RTSize(rt) = Inserted(rtItems, 1)
     /\ RTSize(rt) = Len(slots)
     /\ \A i \in ItemIds : Count(slots, ItemOf(i)) = rtItems[i]

\* A tree of height 3 after five Insert calls, two of them of item 2: leaf
\* splits and internal splits have moved items between leaves.
C24_Witness ==
  /\ RTHeight(rt) = 3 /\ RTSize(rt) = 5
  /\ rtItems[2] = 2
  /\ Count(RTLeafItems(rt, rt.root), ItemOf(2)) = 2

\* ---- BPlusTree
\* C25: each separator keys[i] of each internal node of the tree is the
\* smallest key stored in the subtree of children[i+1].
C25_Separators ==
  \A n \in TreeNodes(bp) :
    ~bp.heap[n].isLeaf =>
      \A i \in 1..Len(bp.heap[n].keys) :
        LET below == SubtreeKeys(bp, bp.heap[n].children[i + 1])
        IN /\ bp.heap[n].keys[i] \in below
           /\ \A k \in below : bp.heap[n].keys[i] <= k

\* ---- BTree and BPlusTree
\* C26: NewBTree and New build from every degree below 2 the tree they build
\* from degree 2, and keep a degree of 2 or more; in every state of a run on
\* trees built with a degree below 2 both trees have degree 2, so that the
\* calls do to them what they do to a tree of degree 2, every node holds at
\* most 3 keys or entries and every node but the root at least 1.
C26_DegreeClamp ==
  /\ \A d \in LowDegreeArgs : NewBTree(d) = NewBTree(2) /\ New(d) = New(2)
  /\ \A d \in 2..MaxDegree : NewBTree(d).degree = d /\ New(d).degree = d
  /\ bt.degree = 2 /\ bp.degree = 2
  /\ NodeSizesOK(2, bt.root, TRUE)
  /\ \A n \in TreeNodes(bp) :
       LET m == IF bp.heap[n].isLeaf THEN Len(bp.heap[n].entries)
                ELSE Len(bp.heap[n].keys)
       IN m <= 3 /\ (n # bp.root => m >= 1)

\* Both trees, built with a degree below 2, have split their root: each
\* holds four keys and has height 1.
C26_Witness ==
  /\ Size(bt) = 4 /\ Height(bt) = 1
  /\ BPLen(bp) = 4 /\ BPHeight(bp) = 1

\* ---- RTree
\* Half of n, rounded toward zero.
HalfOf(n) ==
  CHOOSE q \in (0 - MaxLowEntries - 1)..(MaxEntriesArg + 1) :
    IF n >= 0 THEN 2 * q <= n /\ n < 2 * q + 2
    ELSE 2 * q >= n /\ n > 2 * q - 2

\* C27: NewRTree keeps minEntries when 1 <= minEntries <= maxEntries / 2
\* and sets it to maxEntries / 2 otherwise, the new tree has size 0 and a
\* leaf root, and the tree satisfies 1 <= minEntries <= maxEntries / 2.
C27_Construction ==
  /\ \A a \in RTAnyArgs :
       LET T == NewRTree(a[1], a[2])
       IN /\ T.minEntries = IF 1 <= a[1] /\ a[1] <= HalfOf(a[2])
                            THEN a[1] ELSE HalfOf(a[2])
          /\ T.maxEntries = a[2]
          /\ RTSize(T) = 0 /\ T.heap[T.root].isLeaf
  /\ 1 <= rt.minEntries /\ rt.minEntries <= HalfOf(rt.maxEntries)

\* C27, what follows the violation: a tree built with maxEntries = 1 has
\* minEntries 0, and its second Insert has panicked in the split of the
\* root leaf.
C27_Panic ==
  /\ rt.maxEntries = 1 /\ rt.minEntries = 0
  /\ rtPanic /\ RTSize(rt) = 2

\* ---- BTree
\* the root as deleteFromNode(bt.root, key) leaves it, before Delete looks
\* at it.
RootAfterRemoval(tree, key) == deleteFromNode(tree.degree, tree.root, key).node

RootCollapses(tree, key) ==
  LET root == RootAfterRemoval(tree, key)
  IN Len(root.keys) = 0 /\ ~root.isLeaf

\* C29: Height() of a tree whose root is a leaf (empty or a single node) is
\* 0; an Insert raises Height() by exactly one if the root holds 2t-1 keys
\* when it is called and leaves it unchanged otherwise; a Delete lowers
\* Height() by exactly one if the removal leaves the root a non-leaf with
\* zero keys and leaves it unchanged otherwise.
C29_HeightAtRoot ==
  /\ bt.root.isLeaf => Height(bt) = 0
  /\ [][/\ bt'.root.isLeaf => Height(bt') = 0
        /\ btLast'.op = "Insert" =>
             Height(bt') = Height(bt)
                           + (IF Len(bt.root.keys) = 2 * bt.degree - 1
                              THEN 1 ELSE 0)
        /\ btLast'.op = "Delete" =>
             Height(bt') = Height(bt)
                           - (IF RootCollapses(bt, btLast'.key)
                              THEN 1 ELSE 0)]_vars

\* C29 witness: a Delete of a key the tree does not hold has lowered the
\* height from 2 to 1.
C29_Witness ==
  /\ btLast.op = "Delete" /\ ~btLast.present
  /\ btLast.height = 2 /\ Height(bt) = 1

\* The recursive calls the Delete recorded in last makes on tree.
DeleteCalls(tree, last) ==
  deleteFromNodeCalls(tree.degree, tree.root, last.key, TRUE)

\* C30 (as stated): in any Delete on any reachable tree of degree t, every
\* recursive call of deleteFromNode on a node other than the root is made
\* on a node that holds at least t keys at the moment of the call, and
\* after the Delete no node other than the root holds fewer than t-1 keys.
C30_DescentCalls ==
  [][btLast'.op = "Delete" =>
       /\ \A c \in 1..Len(DeleteCalls(bt, btLast')) :
            ~DeleteCalls(bt, btLast')[c].root
              => DeleteCalls(bt, btLast')[c].keys >= bt.degree
       /\ NodeSizesOK(bt.degree, bt'.root, TRUE)]_vars

\* the fewest keys a node other than the root may hold at a call.
KeysAtCall(t, call) == IF call.again THEN t - 1 ELSE t

\* C30 (amended): every recursive call of deleteFromNode that descends into
\* a child is made on a node that holds at least t keys; the call made
\* again on the same node after handleChildUnderflow is made, below the
\* root, on a node that holds at least t-1 keys; and after the Delete no
\* node other than the root holds fewer than t-1 keys.
C30_DescentAmended ==
  [][btLast'.op = "Delete" =>
       /\ \A c \in 1..Len(DeleteCalls(bt, btLast')) :
            ~DeleteCalls(bt, btLast')[c].root
              => DeleteCalls(bt, btLast')[c].keys
                   >= KeysAtCall(bt.degree, DeleteCalls(bt, btLast')[c])
       /\ NodeSizesOK(bt.degree, bt'.root, TRUE)]_vars

\* C30 witness: Delete(5) on the tree of height 2 whose right child held
\* the keys 6 and 8 over the leaves [5], [7] and [9 10]: the two leaves were
\* merged and deleteFromNode was called again on the right child, which now
\* holds the key 8 alone.
C30_Witness ==
  /\ btLast.op = "Delete" /\ btLast.key = 5
  /\ Height(bt) = 2 /\ Size(bt) = 9 /\ ~Search(bt, 5).found
  /\ At(bt.root.children, 1).keys = <<8>>
  /\ At(At(bt.root.children, 1).children, 0).keys = <<6, 7>>

\* ---- readers
\* The value query q returns when it runs alone on the trees built with n
\* entries.
QueryAlone(n, q) == RunQuery(q, BuiltBT(n), BuiltBP(n), BuiltRT(n))

ResultsAsAlone(readers) ==
  \A r \in Readers :
    readers.at[r].pc = "done"
      => readers.at[r].res = QueryAlone(readers.n, readers.at[r].q)

FixedThenDescends(t, calls, c) ==
  calls[c].again =>
    /\ c < Len(calls)
    /\ ~calls[c + 1].again
    /\ calls[c + 1].keys >= t

\* C31: every Delete, of a stored key or not, makes at most two recursive
\* calls of deleteFromNode for each level of the tree; after
\* handleChildUnderflow the call made again on the same node is followed by
\* a descent into a child that holds at least t keys, never by another
\* call on the same node.
C31_DeleteTerminates ==
  [][btLast'.op = "Delete" =>
       /\ Len(DeleteCalls(bt, btLast')) <= 2 * Height(bt)
       /\ \A c \in 1..Len(DeleteCalls(bt, btLast')) :
            FixedThenDescends(bt.degree, DeleteCalls(bt, btLast'), c)]_vars

\* C31 witness: Delete(1) on a tree of height 2 with eight keys, where the
\* root and then the merged child both had their children merged and were
\* entered again, has returned true and left a tree of height 1.
C31_Witness ==
  /\ btLast.op = "Delete" /\ btLast.key = 1 /\ btLast.ret
  /\ btLast.height = 2 /\ btLast.size = 8 /\ Height(bt) = 1

\* ---- BPlusTree
\* Delete(key) on T takes the last spare entry of a leaf below the root
\* while an immediate sibling under the same parent holds more than
\* minLeafEntries() entries.
LeafSiblings(T, leaf) ==
  LET P == T.heap[T.heap[leaf].parent]
      idx == ChildIndex(P.children, 0, leaf)
  IN {i \in {idx - 1, idx + 1} : 0 <= i /\ i < Len(P.children)}

SiblingSize(T, leaf, i) ==
  Len(T.heap[At(T.heap[T.heap[leaf].parent].children, i)].entries)

BorrowCase(T, key) ==
  /\ T.root # Nil
  /\ EntryIndex(T.heap[findLeaf(T, key)].entries, 0, key) # -1
  /\ findLeaf(T, key) # T.root
  /\ Len(T.heap[findLeaf(T, key)].entries) - 1 < minLeafEntries(T)
  /\ \E i \in LeafSiblings(T, findLeaf(T, key)) :
       SiblingSize(T, findLeaf(T, key), i) > minLeafEntries(T)

\* The immediate siblings of leaf that hold the most entries.
RicherSiblings(T, leaf) ==
  {i \in LeafSiblings(T, leaf) :
     \A j \in LeafSiblings(T, leaf) :
       SiblingSize(T, leaf, i) >= SiblingSize(T, leaf, j)}

\* T2 is T after leaf lost one entry and borrowed one from its sibling at
\* index i of the parent: no merge, and the separator between the two is
\* the first key of the right-hand one.
BorrowedFrom(T, T2, leaf, i) ==
  LET parent == T.heap[leaf].parent
      P == T.heap[parent]
      idx == ChildIndex(P.children, 0, leaf)
      sib == At(P.children, i)
      r == IF i > idx THEN i ELSE idx
  IN /\ T2.heap[parent].children = P.children
     /\ Len(T2.heap[sib].entries) = Len(T.heap[sib].entries) - 1
     /\ Len(T2.heap[leaf].entries) = Len(T.heap[leaf].entries)
     /\ \A j \in LeafSiblings(T, leaf) \ {i} :
          T2.heap[At(P.children, j)].entries = T.heap[At(P.children, j)].entries
     /\ At(T2.heap[parent].keys, r - 1)
          = At(T2.heap[At(P.children, r)].entries, 0).Key

\* C32: when Delete leaves a leaf below the root with fewer than t-1
\* entries and an immediate sibling under the same parent holds more than
\* t-1, exactly one entry is borrowed from the immediate sibling that
\* holds more entries, no merge happens, and the parent separator between
\* the two leaves is the new first key of the right-hand one.
C32_LeafBorrow ==
  \A k \in BPKeys :
    BorrowCase(bp, k) =>
      \E i \in RicherSiblings(bp, findLeaf(bp, k)) :
        BorrowedFrom(bp, BPDelete(bp, k).tree, findLeaf(bp, k), i)

\* The tree at the moment Insert(key, value) on T calls splitInternal: the
\* leaf has been split and its parent has taken the new separator and the
\* new leaf.  (With the degree out of the way insertIntoParent stops there.)
BeforeSplitInternal(T, key, value) ==
  LET leaf == findLeaf(T, key)
      T1 == insertIntoLeaf(T, leaf, key, value)
  IN [splitLeaf([T1 EXCEPT !.degree = Len(T1.heap) + 2], leaf)
        EXCEPT !.degree = T.degree]

\* Insert(key, value) on T splits the parent of the key's leaf.
SplitInternalCase(T, key) ==
  /\ T.root # Nil
  /\ EntryIndex(T.heap[findLeaf(T, key)].entries, 0, key) = -1
  /\ Len(T.heap[findLeaf(T, key)].entries) = maxLeafEntries(T)
  /\ T.heap[findLeaf(T, key)].parent # Nil
  /\ Len(T.heap[T.heap[findLeaf(T, key)].parent].keys) = maxInternalKeys(T)

\* After is Before with its node n of 2t keys split into n and sib around
\* the median key.
MedianPromoted(Before, After, n, sib) ==
  LET keys == Before.heap[n].keys
      children == Before.heap[n].children
      t == Before.degree
      up == After.heap[n].parent
  IN /\ Len(keys) = 2 * t
     /\ sib = Len(Before.heap) + 1
     /\ After.heap[n].keys = Slice(keys, 0, t)
     /\ After.heap[n].children = Slice(children, 0, t + 1)
     /\ After.heap[sib].keys = Slice(keys, t + 1, 2 * t)
     /\ After.heap[sib].children = Slice(children, t + 1, 2 * t + 1)
     /\ ~After.heap[sib].isLeaf
     /\ \A i \in (t + 2)..(2 * t + 1) : After.heap[children[i]].parent = sib
     /\ \A i \in 1..(t + 1) : After.heap[children[i]].parent = n
     /\ After.heap[n].keys \o <<At(keys, t)>> \o After.heap[sib].keys = keys
     /\ up # Nil /\ After.heap[sib].parent = up
     /\ Before.heap[n].parent = Nil =>
          /\ After.root = up /\ After.heap[up].parent = Nil
          /\ After.heap[up].keys = <<At(keys, t)>>
          /\ After.heap[up].children = <<n, sib>>
     /\ (Before.heap[n].parent # Nil
         /\ Len(Before.heap[Before.heap[n].parent].keys) < maxInternalKeys(Before)) =>
          /\ up = Before.heap[n].parent
          /\ At(After.heap[up].keys,
                ChildIndex(After.heap[up].children, 0, n)) = At(keys, t)
          /\ At(After.heap[up].children,
                ChildIndex(After.heap[up].children, 0, n) + 1) = sib

C34_RootShape ==
  bp.root # Nil =>
    /\ bp.heap[bp.root].parent = Nil
    /\ bp.heap[bp.root].isLeaf => Len(bp.heap[bp.root].entries) >= 1
    /\ ~bp.heap[bp.root].isLeaf =>
         /\ Len(bp.heap[bp.root].keys) >= 1
         /\ Len(bp.heap[bp.root].children) >= 2

\* C34 witness: a Delete has emptied the internal root of a tree of height
\* 2 and made its one remaining child, an internal node, the root.
C34_Witness ==
  /\ bpLast.op = "Delete" /\ bpLast.height = 2 /\ BPHeight(bp) = 1
  /\ bp.root # Nil /\ ~bp.heap[bp.root].isLeaf
  /\ bp.heap[bp.root].parent = Nil

\* ----------------------------------------------------------------- RTree

\* The calls of splitNode made by Insert(item), in order: none when the leaf
\* chosen for the item has room.  The first call is on the leaf, with the
\* item in it and the bounds updated.
InsertSplitCalls(T, item) ==
  LET leaf == chooseLeaf(T, T.root, item.Bounds)
  IN IF Len(T.heap[leaf].items) < T.maxEntries THEN <<>>
     ELSE splitNodeCalls(
            [RTInsert([T EXCEPT !.maxEntries = T.size + 1], item)
               EXCEPT !.maxEntries = T.maxEntries],
            leaf)

\* The calls of splitNode made by Insert(item), as a set.
SplitCallSet(T, item) ==
  {InsertSplitCalls(T, item)[c] : c \in 1..Len(InsertSplitCalls(T, item))}

\* The rectangles of the entries of a node, in the node's order.
RectSeq(T, node) ==
  [j \in 1..Len(Entries(T, node)) |->
     EntryBounds(T, T.heap[node].isLeaf, Entries(T, node)[j])]

\* The two groups of a partition of rects at position i: the first i
\* rectangles and the rest.
FirstGroup(rects, i) == {rects[j] : j \in 1..i}
RestGroup(rects, i) == {rects[j] : j \in (i + 1)..Len(rects)}
\* The valid partition positions of count entries.
Positions(T, count) == T.minEntries..(count - T.minEntries)

\* The sum over the positions in P of the margins of the two groups.
RECURSIVE MarginSumOver(_, _)
MarginSumOver(rects, P) ==
  IF P = {} THEN 0
  ELSE LET i == Least(P)
       IN Margin(MBR(FirstGroup(rects, i))) + Margin(MBR(RestGroup(rects, i)))
          + MarginSumOver(rects, P \ {i})

\* The margin sum of a node on an axis: over the entries as the split sorts
\* them, by MinX, and for the Y axis by MinY after that.
AxisMarginSum(T, node, axis) ==
  LET S == IF axis = 0 THEN SortEntries(T, node, 0)
           ELSE SortEntries(SortEntries(T, node, 0), node, 1)
  IN MarginSumOver(RectSeq(S, node), Positions(T, Len(Entries(T, node))))

\* The axis of the smaller margin sum, X on a tie.
SmallerMarginAxis(T, node) ==
  IF AxisMarginSum(T, node, 0) <= AxisMarginSum(T, node, 1) THEN 0 ELSE 1

\* C35: at every split made by an Insert, of a leaf or of an internal node,
\* chooseSplitAxis picks the axis whose sum of margins over the valid
\* partition positions is smaller, and the X axis when the two sums are
\* equal.
C35_SplitAxis ==
  \A i \in ItemIds :
    \A call \in SplitCallSet(rt, ItemOf(i)) :
      chooseSplitAxis(call.tree, call.node).axis
        = SmallerMarginAxis(call.tree, call.node)

\* The axis of the smaller margin sum, Y on a tie.
SmallerMarginAxisOrY(T, node) ==
  IF AxisMarginSum(T, node, 0) < AxisMarginSum(T, node, 1) THEN 0 ELSE 1

\* C35, amended: at every split made by an Insert, chooseSplitAxis picks the
\* axis whose sum of margins over the valid partition positions is smaller,
\* and the Y axis when the two sums are equal.
C35_SplitAxisAmended ==
  \A i \in ItemIds :
    \A call \in SplitCallSet(rt, ItemOf(i)) :
      chooseSplitAxis(call.tree, call.node).axis
        = SmallerMarginAxisOrY(call.tree, call.node)

\* The Data of the items of a leaf, in the leaf's order.
LeafData(T, n) == [j \in 1..Len(T.heap[n].items) |-> T.heap[n].items[j].Data]

\* C35 witness: a root leaf of capacity 2 was split with equal margin sums
\* (12 on either axis, items 1, 2 and 3): the split went by the Y axis and
\* put items 1 and 3 in one leaf and item 2 in the other, where the X axis
\* gives item 1 and items 2 and 3.
C35_Witness ==
  /\ rt.maxEntries = 2 /\ rt.size = 3 /\ ~rt.heap[rt.root].isLeaf
  /\ LeafData(rt, At(rt.heap[rt.root].children, 0)) = <<1, 3>>
  /\ LeafData(rt, At(rt.heap[rt.root].children, 1)) = <<2>>

\* The area of the intersection of two rectangles, 0 when they are apart.
OverlapArea(r1, r2) ==
  Max(0, Min(r1.MaxX, r2.MaxX) - Max(r1.MinX, r2.MinX))
  * Max(0, Min(r1.MaxY, r2.MaxY) - Max(r1.MinY, r2.MinY))

\* The overlap and the area sum of the partition of rects at position i.
SplitOverlap(rects, i) ==
  OverlapArea(MBR(FirstGroup(rects, i)), MBR(RestGroup(rects, i)))
SplitArea(rects, i) ==
  Area(MBR(FirstGroup(rects, i))) + Area(MBR(RestGroup(rects, i)))

\* Position i is no worse than position j: less overlap, or the same
\* overlap and less area, or the same in both and i not after j.
NoWorse(rects, i, j) ==
  \/ SplitOverlap(rects, i) < SplitOverlap(rects, j)
  \/ /\ SplitOverlap(rects, i) = SplitOverlap(rects, j)
     /\ SplitArea(rects, i) < SplitArea(rects, j)
  \/ /\ SplitOverlap(rects, i) = SplitOverlap(rects, j)
     /\ SplitArea(rects, i) = SplitArea(rects, j)
     /\ i <= j

\* The entries are in nondecreasing order of the lower bound on axis.
SortedOn(rects, axis) ==
  \A j \in 1..(Len(rects) - 1) :
    IF axis = 0 THEN rects[j].MinX <= rects[j + 1].MinX
    ELSE rects[j].MinY <= rects[j + 1].MinY

\* The index chooseSplitIndex returns for the split of node on the axis
\* chooseSplitAxis picks, with the tree it leaves.
ChosenSplit(T, node) ==
  chooseSplitIndex(chooseSplitAxis(T, node).tree, node,
                   chooseSplitAxis(T, node).axis)

\* C36: at every split made by an Insert the entries are left sorted by the
\* lower bound on the chosen axis and the index returned is a valid position
\* that minimizes the overlap of the two groups' bounding rectangles, then
\* the sum of their areas, then the position itself.
C36_SplitIndex ==
  \A i \in ItemIds :
    \A call \in SplitCallSet(rt, ItemOf(i)) :
      \E b \in {ChosenSplit(call.tree, call.node)} :
        \E rects \in {RectSeq(b.tree, call.node)} :
          /\ SortedOn(rects, chooseSplitAxis(call.tree, call.node).axis)
          /\ b.index \in Positions(call.tree, Len(rects))
          /\ \A j \in Positions(call.tree, Len(rects)) :
               NoWorse(rects, b.index, j)

\* C36 witness: a root leaf of capacity 3 holding item 1 twice and item 2
\* was split by the Insert of item 5: position 1 has overlap 1, positions 2
\* and 3 have overlap 0 and area sums 5 and 4, and the split is at 3.
C36_Witness ==
  /\ rt.maxEntries = 3 /\ rt.size = 4 /\ ~rt.heap[rt.root].isLeaf
  /\ LeafData(rt, At(rt.heap[rt.root].children, 0)) = <<1, 1, 2>>
  /\ LeafData(rt, At(rt.heap[rt.root].children, 1)) = <<5>>

\* The nodes chooseLeaf(node, bounds) visits, node first.
RECURSIVE DescentPath(_, _, _)
DescentPath(T, node, bounds) ==
  IF T.heap[node].isLeaf THEN <<node>>
  ELSE <<node>> \o DescentPath(T, chooseChild(T, T.heap[node].children, 0,
                                             bounds, Nil, MaxFloat64,
                                             MaxFloat64),
                               bounds)

\* The area by which the bounds of node c grow to include bounds.
Enlargement(T, c, bounds) ==
  Area(MBR({T.heap[c].bounds, bounds})) - Area(T.heap[c].bounds)

\* The position of child c among the children of node n.
ChildPos(T, n, c) ==
  CHOOSE j \in 1..Len(T.heap[n].children) : T.heap[n].children[j] = c

\* Child c of n is preferred to child d for bounds: less enlargement, or
\* the same enlargement and less area, or the same in both and c not after
\* d in the child order.
Preferred(T, n, c, d, bounds) ==
  \/ Enlargement(T, c, bounds) < Enlargement(T, d, bounds)
  \/ /\ Enlargement(T, c, bounds) = Enlargement(T, d, bounds)
     /\ Area(T.heap[c].bounds) < Area(T.heap[d].bounds)
  \/ /\ Enlargement(T, c, bounds) = Enlargement(T, d, bounds)
     /\ Area(T.heap[c].bounds) = Area(T.heap[d].bounds)
     /\ ChildPos(T, n, c) <= ChildPos(T, n, d)

\* The children of node n, as a set.
ChildSet(T, n) == {T.heap[n].children[j] : j \in 1..Len(T.heap[n].children)}

\* C37: the descent of chooseLeaf from the root for the rectangle of any
\* item goes at every internal node to the child that needs the least
\* enlargement, then has the smallest area, then comes first in the child
\* order, and chooseLeaf returns the leaf at the end of that descent.
C37_ChooseLeaf ==
  \A i \in ItemIds :
    LET path == DescentPath(rt, rt.root, ItemRects[i])
    IN /\ chooseLeaf(rt, rt.root, ItemRects[i]) = path[Len(path)]
       /\ rt.heap[path[Len(path)]].isLeaf
       /\ \A p \in 1..(Len(path) - 1) :
            /\ ~rt.heap[path[p]].isLeaf
            /\ path[p + 1] \in ChildSet(rt, path[p])
            /\ \A d \in ChildSet(rt, path[p]) :
                 Preferred(rt, path[p], path[p + 1], d, ItemRects[i])

\* C37 witness: under a root of capacity 2 with a leaf holding item 4
\* twice (area 3) and a leaf holding item 5 (area 0), a second item 5,
\* which enlarges neither, went to the second leaf, the smaller one.
C37_Witness ==
  /\ rt.maxEntries = 2 /\ rt.size = 4 /\ ~rt.heap[rt.root].isLeaf
  /\ LeafData(rt, At(rt.heap[rt.root].children, 0)) = <<4, 4>>
  /\ LeafData(rt, At(rt.heap[rt.root].children, 1)) = <<5, 5>>

\* C38: after every Insert the parent link of every child of every internal
\* node of the tree is that node, and the parent link of the root is nil.
C38_ParentLinks ==
  /\ rt.heap[rt.root].parent = Nil
  /\ \A n \in RTNodes(rt) :
       \A c \in ChildSet(rt, n) : rt.heap[c].parent = n

\* C38 witness: an internal root was split; the tree has three levels, the
\* new root has the two halves as children, and the children moved to the
\* second half, the new sibling, point back to it.
C38_Witness ==
  /\ RTHeight(rt) = 3 /\ Len(rt.heap[rt.root].children) = 2
  /\ LET sib == At(rt.heap[rt.root].children, 1)
     IN /\ rt.heap[sib].parent = rt.root
        /\ ChildSet(rt, sib) # {}
        /\ \A c \in ChildSet(rt, sib) : rt.heap[c].parent = sib

\* ------------------------------------------------------------- BPlusTree

\* C39: for any bounds, stored or not, Range ends and every entry it
\* returns has its key between the bounds; with start above end it returns
\* no entry.
C39_RangeInverted ==
  \A lo \in 0..(MaxKeyBP + 1) : \A hi \in 0..(MaxKeyBP + 1) :
    LET r == Range(bp, lo, hi)
    IN /\ r.done
       /\ \A j \in 1..Len(r.res) : lo <= r.res[j].Key /\ r.res[j].Key <= hi
       /\ lo > hi => r.res = <<>>

\* C39 witness: a tree of several leaves in which Range with inverted
\* bounds starts in a leaf that holds both bounds, so that it passes over
\* the entry of the lower key before it returns, and in which Range from
\* above every key walks the last leaf to its end.
C39_Witness ==
  /\ Len(LeafChain(bp)) >= 3
  /\ \E lo \in BPKeys : \E hi \in BPKeys :
       /\ lo > hi /\ bpRef[lo] # ZeroV /\ bpRef[hi] # ZeroV
       /\ findLeaf(bp, lo) = findLeaf(bp, hi)
       /\ Range(bp, lo, hi) = [res |-> <<>>, done |-> TRUE]
  /\ bpRef[MaxKeyBP] # ZeroV
  /\ Range(bp, MaxKeyBP + 1, MaxKeyBP) = [res |-> <<>>, done |-> TRUE]

\* ----------------------------------------------------------------- RTree

\* The place of entry j of s in a stable sort by the lower bound on axis:
\* after the entries of smaller lower bound and the earlier entries of the
\* same lower bound.
StablePlace(T, isItems, s, axis, j) ==
  1 + Cardinality({m \in 1..Len(s) :
        \/ LowerBound(T, isItems, s[m], axis) < LowerBound(T, isItems, s[j], axis)
        \/ /\ LowerBound(T, isItems, s[m], axis)
                = LowerBound(T, isItems, s[j], axis)
           /\ m < j})

\* s sorted by the lower bound on axis by a stable sort.
StableSort(T, isItems, s, axis) ==
  [p \in 1..Len(s) |->
     s[CHOOSE j \in 1..Len(s) : StablePlace(T, isItems, s, axis, j) = p]]

\* The node with its entries sorted by a stable sort.
StableSortEntries(T, node, axis) ==
  WithEntries(T, node,
              StableSort(T, T.heap[node].isLeaf, Entries(T, node), axis))

\* The two groups of the split of node at the index chooseSplitIndex finds
\* for the entries as they stand in T.
GroupsAt(T, node) ==
  LET index == splitIndexFrom(T, T.heap[node].isLeaf, Entries(T, node),
                              T.minEntries, MaxFloat64, MaxFloat64,
                              T.minEntries)
  IN <<Slice(Entries(T, node), 0, index),
       Slice(Entries(T, node), index, Len(Entries(T, node)))>>

\* The node sorted by a stable sort on the axis of the smaller margin sum, Y
\* on a tie; T1 has the entries sorted by MinX and T2 by MinY.
StableAxisSorted(T1, T2, node) ==
  StableSortEntries(T2, node,
    IF calculateMarginSum(T1, node, T1.heap[node].isLeaf)
         < calculateMarginSum(T2, node, T2.heap[node].isLeaf) THEN 0 ELSE 1)

\* The two groups of the split of node as the code makes it.
SplitGroups(T, node) ==
  LET b == ChosenSplit(T, node)
  IN <<Slice(Entries(b.tree, node), 0, b.index),
       Slice(Entries(b.tree, node), b.index, Len(Entries(b.tree, node)))>>

\* The two groups of the split of node are those of the split made with a
\* stable sort in the three places where the split sorts: by MinX and then
\* by MinY for the margin sums, and by the chosen axis for the index.
GroupsAsStable(T, node) ==
  \E T1 \in {StableSortEntries(T, node, 0)} :
    \E T2 \in {StableSortEntries(T1, node, 1)} :
      \E T3 \in {StableAxisSorted(T1, T2, node)} :
        SplitGroups(T, node) = GroupsAt(T3, node)

\* The three sorts of the split of node, each as the tree it is applied to
\* and the axis.
SplitSorts(T, node) ==
  {[tree |-> T, axis |-> 0],
   [tree |-> SortEntries(T, node, 0), axis |-> 1],
   [tree |-> chooseSplitAxis(T, node).tree,
    axis |-> chooseSplitAxis(T, node).axis]}

\* C40: at every split made by an Insert, each sort of the node's entries
\* gives the order of a stable sort, and the two groups of the split are
\* those of the split made with a stable sort.
C40_SortStable ==
  \A i \in ItemIds :
    \A call \in SplitCallSet(rt, ItemOf(i)) :
      /\ \A srt \in SplitSorts(call.tree, call.node) :
           SortEntries(srt.tree, call.node, srt.axis)
             = StableSortEntries(srt.tree, call.node, srt.axis)
      /\ GroupsAsStable(call.tree, call.node)

\* Sequences s and u hold the same entries, each as often in one as in the
\* other.
Occurrences(s, e) == Cardinality({j \in 1..Len(s) : s[j] = e})
SameEntries(s, u) ==
  /\ Len(s) = Len(u)
  /\ \A j \in 1..Len(s) : Occurrences(s, s[j]) = Occurrences(u, s[j])

\* C40, amended: at every split made by an Insert, each sort of the node's
\* entries leaves them in nondecreasing order of the lower bound on the
\* axis and holds the entries it was given, each as often as before.
C40_SortAmended ==
  \A i \in ItemIds :
    \A call \in SplitCallSet(rt, ItemOf(i)) :
      \A srt \in SplitSorts(call.tree, call.node) :
        \E out \in {SortEntries(srt.tree, call.node, srt.axis)} :
          /\ SortedOn(RectSeq(out, call.node), srt.axis)
          /\ SameEntries(Entries(out, call.node),
                         Entries(srt.tree, call.node))

\* C40 witness: a root leaf of capacity 2 that held two items of equal
\* bounds, 2 and 6, was split by the Insert of item 1; the sort has put
\* item 1 first, and the two items of equal lower bound share the second
\* leaf with item 6 before item 2.
C40_Witness ==
  /\ rt.maxEntries = 2 /\ rt.size = 3 /\ ~rt.heap[rt.root].isLeaf
  /\ LeafData(rt, At(rt.heap[rt.root].children, 0)) = <<1>>
  /\ LeafData(rt, At(rt.heap[rt.root].children, 1)) = <<6, 2>>

=============================================================================
